---- MODULE Spec2Model ----
(***************************************************************************)
(* TechFlow news ingestion pipeline (backend/src/services/newsService.js). *)
(*                                                                         *)
(* The specifications share the variables below:                           *)
(*   Spec           the ingestion runs (fetchAllNews / fetchSingleSource)  *)
(*                  interleaved at their await points;                     *)
(*   SpecSerial     ingestion runs one after the other;                    *)
(*   SpecConfig     one run under each configuration of the tables;        *)
(*   SpecPolicy     the subscription / settings tables under edits, with   *)
(*                  calls of getActiveNewsSources and shouldTranslateTitle;*)
(*   SpecTranslate  calls of translateTitle against the title cache;       *)
(*   SpecRetention  a cleanupOldArticles call, with an ingestion write     *)
(*                  that may fall between its steps;                       *)
(*   SpecSanitize   calls of extractContent / cleanHtmlContent;            *)
(*   SpecTasks      the scheduled fetch and cleanup tasks side by side;    *)
(*   SpecExtract    extractContent with the full-page fetch;               *)
(*   SpecDates      calls of parsePublishedDate;                           *)
(*   SpecCache      two translateTitle calls interleaved;                  *)
(*   SpecCron       the cron tasks under start, stop and restart calls     *)
(*                  (src/unnamed/part_003).                                *)
(***************************************************************************)
EXTENDS Integers, Sequences, FiniteSets, TLC

VARIABLES
    newsSource,       \* table NewsSource: id -> [isActive, isDefault, sourceType]
    userNewsSource,   \* table UserNewsSource: rows [userId, newsSourceId, isEnabled, autoTranslate]
    userSettings,     \* table UserSettings: userId -> "none" | "on" | "off" (autoTranslate)
    systemSettings,   \* table SystemSettings, first row: "none" | "on" | "off" (autoTranslate)
    edits,            \* number of table edits made so far (SpecPolicy)
    ret,              \* the last policy call and what it returned (SpecPolicy)
    articles,         \* table Article: rows [id, sourceId, originalUrl, titleEn, titleCn, publishedAt]
    nextId,           \* the id the next created Article row gets
    titleTranslation, \* table TitleTranslation: rows [originalTitle, translatedTitle]
    run,              \* per slot: the fetchAllNews / fetchSingleSource call in progress
    startsLeft,       \* per slot: how many more runs it may start
    faultsLeft,       \* how many more failures the environment may inject
    lastSweep,        \* history: how the most recently finished full sweep ended
    cleanup,          \* the cleanupOldArticles call in progress (SpecRetention)
    writesLeft,       \* how many more rows an ingestion run may insert during it
    calls,            \* per slot: the translateTitle call in progress (SpecCache)
    cronTasks,        \* the tasks cron.schedule has created: [key, running] (SpecCron)
    activeTasks,      \* the Map activeTasks: job key -> index in cronTasks, 0 if absent
    newsFetchInterval \* process.env.NEWS_FETCH_INTERVAL: "unset" | "valid" | "invalid"

tables == <<newsSource, userNewsSource, userSettings, systemSettings>>

policyVars == <<edits, ret>>

pipelineVars == <<articles, nextId, titleTranslation, run, startsLeft, faultsLeft, lastSweep>>

retentionVars == <<cleanup, writesLeft>>

serviceVars == <<calls, cronTasks, activeTasks, newsFetchInterval>>

vars == <<newsSource, userNewsSource, userSettings, systemSettings, edits, ret,
          articles, nextId, titleTranslation, run, startsLeft, faultsLeft, lastSweep,
          cleanup, writesLeft, calls, cronTasks, activeTasks, newsFetchInterval>>

----------------------------------------------------------------------------
(* Identifiers *)

SourceIds == {"s1", "s2", "s3", "s4", "s5", "s6", "s7"}

\* the order in which prisma.newsSource.findMany lists the rows
SourceOrder == <<"s1", "s2", "s3", "s4", "s5", "s6", "s7">>

\* an id with no row in NewsSource
MissingId == "s9"

UserIds == {"u1", "u2"}

Setting == {"none", "on", "off"}

\* the flags of a subscription row
SubFlags == [isEnabled : BOOLEAN, autoTranslate : BOOLEAN]

SubRow(u, s, flags) ==
    [userId |-> u, newsSourceId |-> s,
     isEnabled |-> flags.isEnabled, autoTranslate |-> flags.autoTranslate]

----------------------------------------------------------------------------
(* Reads of the subscription and settings tables *)

\* the `users: { where: { isEnabled: true } }` include of a NewsSource row
EnabledUsers(sourceId) ==
    {row \in userNewsSource : row.newsSourceId = sourceId /\ row.isEnabled}

\* the filter callback of getActiveNewsSources
IncludeSource_noDefaultRule(sourceId) ==
    TRUE

IncludeSource(sourceId) ==
    IF newsSource[sourceId].isDefault
    THEN Cardinality(EnabledUsers(sourceId)) > 0
    ELSE TRUE

ActiveRow(sourceId) ==
    newsSource[sourceId].isActive

\* getActiveNewsSources, when its query answers: findMany(where isActive) then filter
GetActiveNewsSources ==
    LET sources == SelectSeq(SourceOrder, ActiveRow)
    IN  SelectSeq(sources, IncludeSource)

\* How the reads of shouldTranslateTitle end: both answer, the subscription
\* query raises, or the system settings query raises.
PolicyReads == {"ok", "failSubscriptions", "failSystemSettings"}

\* rows of userNewsSource.findMany({newsSourceId, isEnabled: true, autoTranslate: true})
UserSubscriptions(sourceId) ==
    {row \in userNewsSource : /\ row.newsSourceId = sourceId
                               /\ row.isEnabled
                               /\ row.autoTranslate}

\* subscription.user.settings?.autoTranslate === true, for some row
HasActiveUserSubscription_every(sourceId) ==
    \A subscription \in UserSubscriptions(sourceId) :
        userSettings[subscription.userId] = "on"

HasActiveUserSubscription(sourceId) ==
    \E subscription \in UserSubscriptions(sourceId) :
        userSettings[subscription.userId] = "on"

ShouldTranslateTitle_userOnly(sourceId, reads) ==
    reads = "ok" /\ HasActiveUserSubscription(sourceId)

ShouldTranslateTitle(sourceId, reads) ==
    IF reads = "failSubscriptions"
    THEN FALSE                                  \* catch: return false
    ELSE IF HasActiveUserSubscription(sourceId)
    THEN TRUE
    ELSE IF reads = "failSystemSettings"
    THEN FALSE                                  \* catch: return false
    ELSE systemSettings = "on"                  \* systemSettings?.autoTranslate

----------------------------------------------------------------------------
(* Titles, feeds and the title translation cache *)

\* an English title as the feed gives it
En(t) == <<"en", t>>

\* item.title absent or empty
NoTitle == <<>>

\* item.link absent or empty
NoLink == ""

\* titleCn of an article whose title was not translated
Null == <<"null">>

\* what the translation collaborator (llmService.translateText) may answer
LlmAnswers == {"v1", "v2"}

Zh(title, answer) == <<"zh", title[2], answer>>

Titles == {En("A"), En("B"), En("C"), En("D")}

\* the current time, in days
Now == 100

\* a date field an item does not have
Undefined == "#undefined"

\* What a date field of an item may hold: nothing, the empty string, text
\* that is no date, or the text of day 90 or day 95
DateTexts == {Undefined, "", "not a date", "day 90", "day 95"}

\* an item of a feed
Item(title, link, pubDate, isoDate) ==
    [title |-> title, link |-> link, pubDate |-> pubDate, isoDate |-> isoDate,
     date |-> Undefined, dcDate |-> Undefined]

\* parsedDate.getTime() of an invalid Date
NaN == -1

\* new Date(timeField).getTime(), in days
NewDate(timeField) ==
    CASE timeField = "day 90" -> 90
      [] timeField = "day 95" -> 95
      [] OTHER                -> NaN

\* const timeFields = [item.pubDate, item.isoDate, item.date, item['dc:date']]
TimeFields_isoFirst(item) ==
    << item.isoDate, item.pubDate, item.date, item.dcDate >>

TimeFields(item) ==
    << item.pubDate, item.isoDate, item.date, item.dcDate >>

\* the loop of parsePublishedDate from field i on: the first field that is
\* truthy and parses is returned, and the current time after the last
RECURSIVE FirstValidDate(_, _)
FirstValidDate(timeFields, i) ==
    IF i > Len(timeFields)
    THEN Now
    ELSE IF /\ timeFields[i] \notin {Undefined, ""}
            /\ NewDate(timeFields[i]) # NaN
    THEN NewDate(timeFields[i])
    ELSE FirstValidDate(timeFields, i + 1)

\* parsePublishedDate(item)
ParsePublishedDate(item) ==
    FirstValidDate(TimeFields(item), 1)

\* What parser.parseURL(source.url) yields when it answers. The feeds are the
\* same on every fetch. s1 lists link l1 twice and an item without a title;
\* s2 lists an item without a link, and l1 as well. Some items carry a date
\* that does not parse.
Feed(sourceId) ==
    CASE sourceId = "s1" -> << Item(En("A"), "l1", "not a date", "day 95"),
                               Item(NoTitle, "l2", Undefined, Undefined),
                               Item(En("B"), "l1", "day 90", "day 95") >>
      [] sourceId = "s2" -> << Item(En("C"), "l2", "not a date", ""),
                               Item(En("B"), NoLink, Undefined, Undefined),
                               Item(En("A"), "l1", Undefined, Undefined) >>
      [] OTHER           -> << Item(En("D"), "l3", Undefined, Undefined) >>

\* How the collaborators of one translateTitle call behave: the cache lookup
\* raises; or it answers and, on a miss, the translator raises, or answers and
\* the cache upsert raises, or both answer.
TranslateOutcomes == {"lookupRaise", "llmRaise", "upsertRaise"} \cup LlmAnswers

\* the outcomes explored inside an ingestion run (one translator answer)
PipelineTranslateOutcomes == {"lookupRaise", "llmRaise", "upsertRaise", "v1"}

Cached(title) ==
    {row \in titleTranslation : row.originalTitle = title}

\* prisma.titleTranslation.upsert keyed by originalTitle
Upsert_insert(title, translation) ==
    titleTranslation \cup {[originalTitle |-> title, translatedTitle |-> translation]}

Upsert(title, translation) ==
    {row \in titleTranslation : row.originalTitle # title}
    \cup {[originalTitle |-> title, translatedTitle |-> translation]}

\* whether a collaborator of this translateTitle call raises
TranslateFaults(title, how) ==
    IF how = "lookupRaise" THEN 1
    ELSE IF Cached(title) # {} THEN 0
    ELSE IF how \in {"llmRaise", "upsertRaise"} THEN 1
    ELSE 0

TranslateTitle_noCatch(title, how) ==
    IF how = "lookupRaise"
    THEN [raised |-> TRUE, ret |-> title, cache |-> titleTranslation]
    ELSE IF Cached(title) # {}
    THEN [raised |-> FALSE,
          ret |-> (CHOOSE row \in Cached(title) : TRUE).translatedTitle,
          cache |-> titleTranslation]
    ELSE IF how = "llmRaise"
    THEN [raised |-> TRUE, ret |-> title, cache |-> titleTranslation]
    ELSE IF how = "upsertRaise"
    THEN [raised |-> FALSE, ret |-> Zh(title, "v1"), cache |-> titleTranslation]
    ELSE [raised |-> FALSE, ret |-> Zh(title, how),
          cache |-> Upsert(title, Zh(title, how))]

\* translateTitle(title): whether it raises to its caller, what it returns
\* and the cache it leaves
TranslateTitle(title, how) ==
    IF how = "lookupRaise"
    THEN [raised |-> FALSE, ret |-> title, cache |-> titleTranslation]
    ELSE IF Cached(title) # {}
    THEN [raised |-> FALSE,
          ret |-> (CHOOSE row \in Cached(title) : TRUE).translatedTitle,
          cache |-> titleTranslation]
    ELSE IF how = "llmRaise"
    THEN [raised |-> FALSE, ret |-> title, cache |-> titleTranslation]
    ELSE IF how = "upsertRaise"
    THEN [raised |-> FALSE, ret |-> Zh(title, "v1"), cache |-> titleTranslation]
    ELSE [raised |-> FALSE, ret |-> Zh(title, how),
          cache |-> Upsert(title, Zh(title, how))]

----------------------------------------------------------------------------
(* The Article table *)

\* prisma.article.findFirst({ where: { originalUrl: link } })
ExistingArticle(link) ==
    \E a \in articles : a.originalUrl = link

\* the unique constraint on Article.originalUrl (Prisma error P2002)
UniqueViolation_unconstrained(data) ==
    FALSE

UniqueViolation(data) ==
    \E a \in articles : a.originalUrl = data.originalUrl

\* the row prisma.article.create({ data }) inserts
CreatedRow(data) ==
    [id |-> nextId, sourceId |-> data.sourceId, originalUrl |-> data.originalUrl,
     titleEn |-> data.titleEn, titleCn |-> data.titleCn,
     publishedAt |-> data.publishedAt]

----------------------------------------------------------------------------
(* The translateTitle calls in progress and the cron tasks, at start-up *)

\* the keys of CRON_JOBS
JobKeys == {"NEWS_FETCH", "CLEANUP_ARTICLES"}

\* the order Object.entries(CRON_JOBS) lists them in
JobOrder == <<"NEWS_FETCH", "CLEANUP_ARTICLES">>

\* the callers of translateTitle that may run side by side
Callers == {1, 2}

\* no translateTitle call yet. History, read by no step: missed (the cache
\* lookup found nothing), llmCalls (calls of llmService.translateText),
\* stored (the cache write went through), logged (errors logged)
IdleCall ==
    [pc |-> "idle", title |-> <<>>, translation |-> <<>>, value |-> <<>>,
     raised |-> FALSE, missed |-> FALSE, llmCalls |-> 0, stored |-> FALSE,
     logged |-> 0]

\* const activeTasks = new Map(): no task under any key
InitServiceVars ==
    /\ calls = [c \in Callers |-> IdleCall]
    /\ cronTasks = <<>>
    /\ activeTasks = [k \in JobKeys |-> 0]
    /\ newsFetchInterval = "unset"

----------------------------------------------------------------------------
(* One run: a fetchAllNews or a fetchSingleSource call *)

maxRetries == 3

Slots == {1, 2}

\* SpecSerial: runs one slot may start, one after the other, and failures
\* the environment may inject
MaxStarts == 2

MaxFaults == 3

\* Spec: failures the environment may inject while two runs overlap
MaxRaceFaults == 2

NoSweep == [some |-> FALSE, clean |-> FALSE, endArticles |-> {}]

\* The locals of a call. History, read by no step: fetchFailures (parseURL
\* raises for the current source), rejected and raised (inserts of the current
\* batch rejected as duplicates / failed otherwise), fetched (sources whose
\* feed was requested), parseCalls (parseURL calls for the current source),
\* waits (the delays slept between its attempts, in ms),
\* log (one entry per processed source), lost (a source
\* was given up or an insert failed), alone (no other run overlapped), prev
\* (the last full sweep, if nothing was written since), enrichFailed (the
\* articles of the current batch whose title translation failed), before
\* (the Article table when the call started).

IdleRun ==
    [kind |-> "idle", target |-> "", pc |-> "idle", outcome |-> "",
     sources |-> <<>>, si |-> 0,
     attempt |-> 0, fetchFailures |-> 0, parseCalls |-> 0, waits |-> <<>>,
     ii |-> 0,
     batch |-> <<>>, bi |-> 0, created |-> 0, errors |-> 0,
     rejected |-> 0, raised |-> 0,
     totalArticles |-> 0, totalErrors |-> 0,
     fetched |-> {}, log |-> <<>>, lost |-> FALSE, alone |-> TRUE,
     prev |-> NoSweep, enrichFailed |-> {}, before |-> {}]

Active(r) == run[r].pc \in {"attempt", "items", "save"}

\* no cleanupOldArticles call yet
NoCleanup == [pc |-> "idle"]

InitPipelineVars ==
    /\ articles = {}
    /\ nextId = 1
    /\ titleTranslation = {}
    /\ run = [r \in Slots |-> IdleRun]
    /\ lastSweep = NoSweep
    /\ cleanup = NoCleanup
    /\ writesLeft = 0

\* the source the run is processing
Source(rec) == rec.sources[rec.si]

\* the `for (const source of sources)` loop head: an api source is fetched by
\* fetchFromAPI, which returns [] at once, so saveArticles returns {0, 0};
\* an rss source enters fetchFromRSS at attempt 1; past the last source the
\* call returns its summary.
RECURSIVE NextSource(_)
NextSource(rec) ==
    IF rec.si > Len(rec.sources)
    THEN [rec EXCEPT !.pc = "done", !.outcome = "summary"]
    ELSE IF newsSource[Source(rec)].sourceType = "rss"
    THEN [rec EXCEPT !.pc = "attempt", !.attempt = 1, !.fetchFailures = 0,
                     !.parseCalls = 0, !.waits = <<>>,
                     !.ii = 0, !.batch = <<>>, !.bi = 0, !.enrichFailed = {},
                     !.created = 0, !.errors = 0, !.rejected = 0, !.raised = 0]
    ELSE NextSource([rec EXCEPT
            !.log = Append(@, [source |-> Source(rec), attempts |-> 0,
                               fetchFailures |-> 0, parseCalls |-> 0,
                               waits |-> <<>>, gaveUp |-> FALSE, items |-> 0,
                               created |-> 0, errors |-> 0,
                               rejected |-> 0, raised |-> 0, errorsAdded |-> 0]),
            !.si = @ + 1])

\* saveArticles has returned {created, errors} for the current source: the
\* caller adds them to its totals and moves to the next source
SourceDone(rec, gaveUp) ==
    NextSource([rec EXCEPT
        !.totalArticles = @ + rec.created,
        !.totalErrors = @ + rec.errors,
        !.log = Append(@, [source |-> Source(rec), attempts |-> rec.attempt,
                           fetchFailures |-> rec.fetchFailures,
                           parseCalls |-> rec.parseCalls, waits |-> rec.waits,
                           gaveUp |-> gaveUp,
                           items |-> Len(rec.batch),
                           created |-> rec.created, errors |-> rec.errors,
                           rejected |-> rec.rejected, raised |-> rec.raised,
                           errorsAdded |-> rec.errors]),
        !.lost = @ \/ gaveUp \/ rec.errors > 0,
        !.si = @ + 1])

\* fetchFromRSS returns `articles`: saveArticles returns {0, 0} at once for an
\* empty list, else starts its loop
ReturnArticles_notAwaited(rec, gaveUp) ==
    SourceDone(rec, gaveUp)

ReturnArticles(rec, gaveUp) ==
    IF Len(rec.batch) = 0
    THEN SourceDone(rec, gaveUp)
    ELSE [rec EXCEPT !.pc = "save", !.bi = 1]

\* the catch of one fetchFromRSS attempt: wait and retry while attempts are
\* left, else log and return []
Delay_fixed(attempt) == 2000

\* const delay = attempt * 2000
Delay(attempt) == attempt * 2000

AttemptFailed(rec) ==
    IF rec.attempt < maxRetries
    THEN [rec EXCEPT !.attempt = @ + 1, !.pc = "attempt", !.batch = <<>>, !.ii = 0,
                     !.enrichFailed = {},
                     !.waits = Append(@, Delay(rec.attempt))]
    ELSE ReturnArticles([rec EXCEPT !.batch = <<>>, !.enrichFailed = {}], TRUE)

\* the end of the `for (const item of feed.items)` loop
NextItem(rec) ==
    IF rec.ii >= Len(Feed(Source(rec)))
    THEN ReturnArticles(rec, FALSE)
    ELSE [rec EXCEPT !.pc = "items", !.ii = @ + 1]

----------------------------------------------------------------------------
(* The steps of a run, one per await point that reads or writes shared state *)

\* the run of slot r moves to rec; history: a run that starts while another
\* is active ends that one's solitude, and a full sweep that returns is
\* recorded with the Article table it leaves
Commit(r, rec, newArticles) ==
    /\ run' = [q \in Slots |->
                 IF q = r THEN rec
                 ELSE IF ~Active(r) /\ rec.pc \in {"attempt", "items", "save"}
                         /\ Active(q)
                 THEN [run[q] EXCEPT !.alone = FALSE]
                 ELSE run[q]]
    /\ lastSweep' = IF rec.kind = "sweep" /\ rec.pc = "done"
                    THEN [some |-> TRUE, clean |-> ~rec.lost,
                          endArticles |-> newArticles]
                    ELSE IF newArticles # articles \/ rec.kind = "single"
                    THEN NoSweep
                    ELSE lastSweep

\* a slot starts a run when its previous one has returned; slot 2 starts
\* only after slot 1 has (the slots are interchangeable)
CanStart(r) ==
    /\ run[r].pc \in {"idle", "done", "failed"}
    /\ startsLeft[r] > 0
    /\ r = 2 => run[1].pc # "idle"

\* the locals a call starts with: its counters are zero
NewRun_keepTotals(r, kind, target) ==
    [IdleRun EXCEPT !.kind = kind, !.target = target,
                    !.alone = \A q \in Slots \ {r} : ~Active(q),
                    !.prev = lastSweep, !.before = articles,
                    !.totalArticles = run[r].totalArticles,
                    !.totalErrors = run[r].totalErrors]

NewRun(r, kind, target) ==
    [IdleRun EXCEPT !.kind = kind, !.target = target,
                    !.alone = \A q \in Slots \ {r} : ~Active(q),
                    !.prev = lastSweep, !.before = articles]

\* fetchAllNews up to its first feed fetch: getActiveNewsSources answers and
\* the loop starts, or the query raises and the error is rethrown
FetchAllNews(r, query) ==
    /\ CanStart(r)
    /\ query = "raise" => faultsLeft > 0
    /\ startsLeft' = [startsLeft EXCEPT ![r] = @ - 1]
    /\ faultsLeft' = faultsLeft - (IF query = "raise" THEN 1 ELSE 0)
    /\ Commit(r,
              IF query = "raise"
              THEN [NewRun(r, "sweep", "") EXCEPT !.pc = "failed", !.outcome = "QueryError"]
              ELSE NextSource([NewRun(r, "sweep", "") EXCEPT
                        !.sources = GetActiveNewsSources, !.si = 1]),
              articles)
    /\ UNCHANGED <<articles, nextId, titleTranslation>>
    /\ UNCHANGED tables /\ UNCHANGED policyVars /\ UNCHANGED retentionVars /\ UNCHANGED serviceVars

\* the row findUnique({ where: { id, isActive: true } }) finds
FindActiveSource_anyRow(sourceId) ==
    sourceId \in SourceIds

FindActiveSource(sourceId) ==
    sourceId \in SourceIds /\ newsSource[sourceId].isActive

\* the sources fetchSingleSource fetches and saves: the one it looked up
SourcesOfSingle_allActive(sourceId) ==
    GetActiveNewsSources

SourcesOfSingle(sourceId) ==
    <<sourceId>>

\* fetchSingleSource up to its first feed fetch
FetchSingleSource(r, sourceId, query) ==
    /\ CanStart(r)
    /\ query = "raise" => faultsLeft > 0
    /\ startsLeft' = [startsLeft EXCEPT ![r] = @ - 1]
    /\ faultsLeft' = faultsLeft - (IF query = "raise" THEN 1 ELSE 0)
    /\ Commit(r,
              IF query = "raise"
              THEN [NewRun(r, "single", sourceId) EXCEPT
                        !.pc = "failed", !.outcome = "QueryError"]
              ELSE IF ~FindActiveSource(sourceId)
              THEN [NewRun(r, "single", sourceId) EXCEPT
                        !.pc = "failed", !.outcome = "SourceNotFound"]
              ELSE IF newsSource[sourceId].isDefault
                      /\ Cardinality(EnabledUsers(sourceId)) = 0
              THEN [NewRun(r, "single", sourceId) EXCEPT
                        !.pc = "failed", !.outcome = "NoSubscribers"]
              ELSE NextSource([NewRun(r, "single", sourceId) EXCEPT
                        !.sources = SourcesOfSingle(sourceId), !.si = 1]),
              articles)
    /\ UNCHANGED <<articles, nextId, titleTranslation>>
    /\ UNCHANGED tables /\ UNCHANGED policyVars /\ UNCHANGED retentionVars /\ UNCHANGED serviceVars

\* one attempt of fetchFromRSS: parser.parseURL(source.url) answers or raises
ParseURL(r, answer) ==
    /\ run[r].pc = "attempt"
    /\ answer = "raise" => faultsLeft > 0
    /\ faultsLeft' = faultsLeft - (IF answer = "raise" THEN 1 ELSE 0)
    /\ LET rec == [run[r] EXCEPT !.fetched = @ \cup {Source(run[r])},
                                 !.parseCalls = @ + 1]
       IN  Commit(r,
                  IF answer = "raise"
                  THEN AttemptFailed([rec EXCEPT !.fetchFailures = @ + 1])
                  ELSE NextItem([rec EXCEPT !.pc = "items", !.ii = 0, !.batch = <<>>,
                                            !.enrichFailed = {}]),
                  articles)
    /\ UNCHANGED <<articles, nextId, titleTranslation, startsLeft>>
    /\ UNCHANGED tables /\ UNCHANGED policyVars /\ UNCHANGED retentionVars /\ UNCHANGED serviceVars

\* the article object fetchFromRSS builds for an item
MakeArticle(sourceId, item, titleCn) ==
    [sourceId |-> sourceId, titleEn |-> item.title, titleCn |-> titleCn,
     originalUrl |-> item.link, publishedAt |-> ParsePublishedDate(item)]

\* !item.title || !item.link
Invalid_titleOnly(item) ==
    item.title = NoTitle

Invalid(item) ==
    item.title = NoTitle \/ item.link = NoLink

\* articles.push(article), after the translation of the title was tried or
\* not; failure says how a tried translation failed ("none" if it did not)
PushArticle_failAttempt(rec, article, failure) ==
    IF failure = "none"
    THEN NextItem([rec EXCEPT !.batch = Append(@, article)])
    ELSE [AttemptFailed(rec) EXCEPT !.enrichFailed =
            @ \cup {[index |-> Len(rec.batch) + 1, title |-> article.titleEn,
                     how |-> failure]}]

PushArticle(rec, article, failure) ==
    NextItem([rec EXCEPT
        !.batch = Append(@, article),
        !.enrichFailed =
            IF failure = "none" THEN @
            ELSE @ \cup {[index |-> Len(rec.batch) + 1, title |-> article.titleEn,
                          how |-> failure]}])

\* one iteration of the item loop of fetchFromRSS: validity, the existence
\* pre-check, the translation decision and the translation
ProcessItem(r, pre, reads, how) ==
    /\ run[r].pc = "items"
    /\ LET rec     == run[r]
           src     == Source(rec)
           item    == Feed(src)[rec.ii]
           invalid == Invalid(item)
           checked == ~invalid /\ pre = "ok"
           fresh   == checked /\ ~ExistingArticle(item.link)
           decided == fresh /\ ShouldTranslateTitle(src, reads)
           t       == TranslateTitle(item.title, how)
           nFaults == (IF ~invalid /\ pre = "raise" THEN 1 ELSE 0)
                      + (IF fresh /\ reads # "ok" THEN 1 ELSE 0)
                      + (IF decided THEN TranslateFaults(item.title, how) ELSE 0)
       IN  /\ invalid => pre = "ok"
           /\ ~fresh => reads = "ok"
           /\ (fresh /\ reads = "failSystemSettings") => ~HasActiveUserSubscription(src)
           /\ ~decided => how = "v1"
           /\ nFaults <= faultsLeft
           /\ faultsLeft' = faultsLeft - nFaults
           /\ titleTranslation' = IF decided THEN t.cache ELSE titleTranslation
           /\ Commit(r,
                     IF invalid THEN NextItem(rec)
                     ELSE IF pre = "raise" THEN AttemptFailed(rec)
                     ELSE IF ~fresh THEN NextItem(rec)
                     ELSE PushArticle(rec,
                            MakeArticle(src, item, IF decided THEN t.ret ELSE Null),
                            IF /\ decided
                               /\ how \in {"lookupRaise", "llmRaise"}
                               /\ TranslateFaults(item.title, how) = 1
                            THEN how ELSE "none"),
                     articles)
    /\ UNCHANGED <<articles, nextId, startsLeft>>
    /\ UNCHANGED tables /\ UNCHANGED policyVars /\ UNCHANGED retentionVars /\ UNCHANGED serviceVars

\* the catch of the saveArticles loop: P2002 is skipped, anything else counted
InsertFailed_countDuplicates(rec, code) ==
    [rec EXCEPT !.errors = @ + 1]

InsertFailed_asCreated(rec, code) ==
    IF code = "P2002"
    THEN [rec EXCEPT !.created = @ + 1]
    ELSE [rec EXCEPT !.errors = @ + 1]

InsertFailed(rec, code) ==
    IF code = "P2002"
    THEN rec
    ELSE [rec EXCEPT !.errors = @ + 1]

\* the end of one iteration of the saveArticles loop
NextArticle(rec) ==
    IF rec.bi >= Len(rec.batch)
    THEN SourceDone(rec, FALSE)
    ELSE [rec EXCEPT !.bi = @ + 1]

\* one iteration of the saveArticles loop: prisma.article.create answers,
\* rejects a duplicate originalUrl, or raises for another reason
SaveArticle(r, db) ==
    /\ run[r].pc = "save"
    /\ db = "raise" => faultsLeft > 0
    /\ faultsLeft' = faultsLeft - (IF db = "raise" THEN 1 ELSE 0)
    /\ LET rec  == run[r]
           data == rec.batch[rec.bi]
       IN  IF db = "raise"
           THEN /\ Commit(r, NextArticle(InsertFailed(
                            [rec EXCEPT !.raised = @ + 1], "P1001")), articles)
                /\ UNCHANGED <<articles, nextId>>
           ELSE IF UniqueViolation(data)
           THEN /\ Commit(r, NextArticle(InsertFailed(
                            [rec EXCEPT !.rejected = @ + 1], "P2002")), articles)
                /\ UNCHANGED <<articles, nextId>>
           ELSE /\ articles' = articles \cup {CreatedRow(data)}
                /\ nextId' = nextId + 1
                /\ Commit(r, NextArticle([rec EXCEPT !.created = @ + 1]),
                          articles \cup {CreatedRow(data)})
    /\ UNCHANGED <<titleTranslation, startsLeft>>
    /\ UNCHANGED tables /\ UNCHANGED policyVars /\ UNCHANGED retentionVars /\ UNCHANGED serviceVars


----------------------------------------------------------------------------
(* SpecPolicy: the tables under edits, and calls of the two policy reads *)

MaxEdits == 3

NoCall == [op |-> "none"]

InitTables ==
    /\ newsSource = [s \in SourceIds |->
          [isActive   |-> s \in {"s1", "s2", "s3", "s5", "s7"},
           isDefault  |-> s \in {"s2", "s3", "s6", "s7"},
           sourceType |-> IF s = "s5" THEN "api" ELSE "rss"]]
    /\ userNewsSource =
          {SubRow("u1", "s2", [isEnabled |-> TRUE,  autoTranslate |-> TRUE]),
           SubRow("u2", "s3", [isEnabled |-> FALSE, autoTranslate |-> TRUE]),
           SubRow("u2", "s6", [isEnabled |-> TRUE,  autoTranslate |-> FALSE])}
    /\ userSettings = [u \in UserIds |-> IF u = "u1" THEN "on" ELSE "none"]
    /\ systemSettings = "off"

InitPolicy ==
    /\ InitTables
    /\ edits = 0
    /\ ret = NoCall
    /\ InitPipelineVars
    /\ InitServiceVars
    /\ startsLeft = [r \in Slots |-> 0]
    /\ faultsLeft = 0

\* an administrator flips a source's isActive flag
SetSourceActive(s, b) ==
    /\ edits < MaxEdits
    /\ newsSource[s].isActive # b
    /\ newsSource' = [newsSource EXCEPT ![s].isActive = b]
    /\ edits' = edits + 1
    /\ ret' = NoCall
    /\ UNCHANGED <<userNewsSource, userSettings, systemSettings>>
    /\ UNCHANGED pipelineVars /\ UNCHANGED retentionVars /\ UNCHANGED serviceVars

\* a user creates or updates a subscription row
PutSubscription(u, s, flags) ==
    /\ edits < MaxEdits
    /\ SubRow(u, s, flags) \notin userNewsSource
    /\ userNewsSource' =
          {row \in userNewsSource : ~(row.userId = u /\ row.newsSourceId = s)}
          \cup {SubRow(u, s, flags)}
    /\ edits' = edits + 1
    /\ ret' = [op |-> "putSubscription", added |-> SubRow(u, s, flags),
               enabledBefore |-> Cardinality(EnabledUsers(s)),
               systemBefore |-> systemSettings]
    /\ UNCHANGED <<newsSource, userSettings, systemSettings>>
    /\ UNCHANGED pipelineVars /\ UNCHANGED retentionVars /\ UNCHANGED serviceVars

\* a user changes the account-level auto-translate setting
SetUserAutoTranslate(u, v) ==
    /\ edits < MaxEdits
    /\ userSettings[u] # v
    /\ userSettings' = [userSettings EXCEPT ![u] = v]
    /\ edits' = edits + 1
    /\ ret' = NoCall
    /\ UNCHANGED <<newsSource, userNewsSource, systemSettings>>
    /\ UNCHANGED pipelineVars /\ UNCHANGED retentionVars /\ UNCHANGED serviceVars

\* an administrator changes the system-wide auto-translate toggle
SetSystemAutoTranslate(v) ==
    /\ edits < MaxEdits
    /\ systemSettings # v
    /\ systemSettings' = v
    /\ edits' = edits + 1
    /\ ret' = [op |-> "setSystemAutoTranslate", value |-> v,
               systemBefore |-> systemSettings]
    /\ UNCHANGED <<newsSource, userNewsSource, userSettings>>
    /\ UNCHANGED pipelineVars /\ UNCHANGED retentionVars /\ UNCHANGED serviceVars

\* one call of shouldTranslateTitle(sourceId)
CallShouldTranslateTitle(s, reads) ==
    /\ ret' = [op |-> "shouldTranslateTitle", sourceId |-> s, reads |-> reads,
               value |-> ShouldTranslateTitle(s, reads)]
    /\ UNCHANGED <<newsSource, userNewsSource, userSettings, systemSettings, edits>>
    /\ UNCHANGED pipelineVars /\ UNCHANGED retentionVars /\ UNCHANGED serviceVars

\* one call of getActiveNewsSources that answers
CallGetActiveNewsSources ==
    /\ ret' = [op |-> "getActiveNewsSources", value |-> GetActiveNewsSources]
    /\ UNCHANGED <<newsSource, userNewsSource, userSettings, systemSettings, edits>>
    /\ UNCHANGED pipelineVars /\ UNCHANGED retentionVars /\ UNCHANGED serviceVars

NextPolicy ==
    \/ \E s \in {"s1", "s2"}, b \in BOOLEAN : SetSourceActive(s, b)
    \/ \E u \in UserIds, s \in {"s1", "s2"}, flags \in SubFlags : PutSubscription(u, s, flags)
    \/ \E u \in UserIds, v \in {"on", "off"} : SetUserAutoTranslate(u, v)
    \/ \E v \in {"on", "off"} : SetSystemAutoTranslate(v)
    \/ \E s \in {"s1", "s2"}, reads \in PolicyReads : CallShouldTranslateTitle(s, reads)
    \/ CallGetActiveNewsSources

SpecPolicy == InitPolicy /\ [][NextPolicy]_vars

----------------------------------------------------------------------------
(* Claims about the translation policy (SpecPolicy) *)

\* the decision the policy documents: (a) an enabled subscription with
\* subscription-level and account-level auto-translate on, or (b) the
\* system-wide toggle
PolicySaysTranslate(s) ==
    \/ \E row \in userNewsSource :
          /\ row.newsSourceId = s
          /\ row.isEnabled
          /\ row.autoTranslate
          /\ userSettings[row.userId] = "on"
    \/ systemSettings = "on"

\* C7 as stated: every call of shouldTranslateTitle(sourceId) returns true
\* iff the policy decision (a) or (b) holds of the tables.
C7_AsStated ==
    ret.op = "shouldTranslateTitle"
        => (ret.value <=> PolicySaysTranslate(ret.sourceId))

\* C7 amended: a call whose reads answer returns true iff (a) or (b); a call
\* never returns true unless (a) or (b) holds; a call whose subscription
\* read raises returns false; a call whose system-settings read raises
\* returns true iff (a) holds.
C7_ShouldTranslateDecision ==
    ret.op = "shouldTranslateTitle"
        => /\ ret.reads = "ok"
                => (ret.value <=> PolicySaysTranslate(ret.sourceId))
           /\ ret.value => PolicySaysTranslate(ret.sourceId)
           /\ ret.reads = "failSubscriptions" => ~ret.value
           /\ ret.reads = "failSystemSettings"
                => (ret.value <=>
                      \E row \in userNewsSource :
                          /\ row.newsSourceId = ret.sourceId
                          /\ row.isEnabled
                          /\ row.autoTranslate
                          /\ userSettings[row.userId] = "on")

\* C7 witness: an answered call returned true through the system toggle
\* alone, after the toggle was switched on.
C7_Witness ==
    /\ ret.op = "shouldTranslateTitle"
    /\ ret.reads = "ok"
    /\ ret.value
    /\ UserSubscriptions(ret.sourceId) = {}
    /\ systemSettings = "on"

\* the part of C8 both readings share: with zero enabled subscribers and the
\* global flag not on, shouldTranslateTitle returns false however its reads end
C8_FalseAtBaseline ==
    \A s \in SourceIds :
        (EnabledUsers(s) = {} /\ systemSettings # "on")
            => \A reads \in PolicyReads : ~ShouldTranslateTitle(s, reads)

\* the global flag was just turned on from a state where it was not on
C8_FlippedGlobal ==
    /\ ret.op = "setSystemAutoTranslate"
    /\ ret.value = "on"
    /\ ret.systemBefore # "on"

\* one enabled subscriber with subscription auto-translate on was just added
\* to a source that had zero enabled subscribers, the global flag not on
C8_AddedSubscriber ==
    /\ ret.op = "putSubscription"
    /\ ret.enabledBefore = 0
    /\ ret.systemBefore # "on"
    /\ ret.added.isEnabled
    /\ ret.added.autoTranslate

\* C8 as stated: false at the baseline, and either flip makes
\* shouldTranslateTitle (reads answering) return true.
C8_AsStated ==
    /\ C8_FalseAtBaseline
    /\ C8_FlippedGlobal => \A s \in SourceIds : ShouldTranslateTitle(s, "ok")
    /\ C8_AddedSubscriber => ShouldTranslateTitle(ret.added.newsSourceId, "ok")

\* C8 amended: false at the baseline; turning the global flag on makes it
\* return true; adding an enabled subscriber with subscription auto-translate
\* on makes it return true when that user's account-level auto-translate is
\* on (reads answering).
C8_FlipMakesTrue ==
    /\ C8_FalseAtBaseline
    /\ C8_FlippedGlobal => \A s \in SourceIds : ShouldTranslateTitle(s, "ok")
    /\ (C8_AddedSubscriber /\ userSettings[ret.added.userId] = "on")
            => ShouldTranslateTitle(ret.added.newsSourceId, "ok")

\* C8 witness: the subscriber was added to a source with zero enabled
\* subscribers, the account-level setting is on, and the policy now answers true.
C8_Witness ==
    /\ C8_AddedSubscriber
    /\ userSettings[ret.added.userId] = "on"
    /\ ShouldTranslateTitle(ret.added.newsSourceId, "ok")

----------------------------------------------------------------------------
(* Spec: the ingestion runs *)

\* two runs that may overlap, each slot starting one
Init ==
    /\ InitTables
    /\ edits = 0
    /\ ret = NoCall
    /\ InitPipelineVars
    /\ InitServiceVars
    /\ startsLeft = [r \in Slots |-> 1]
    /\ faultsLeft = MaxRaceFaults

Next ==
    \/ \E r \in Slots, query \in {"ok", "raise"} : FetchAllNews(r, query)
    \/ \E r \in Slots, sourceId \in SourceIds \cup {MissingId},
          query \in {"ok", "raise"} : FetchSingleSource(r, sourceId, query)
    \/ \E r \in Slots, answer \in {"ok", "raise"} : ParseURL(r, answer)
    \/ \E r \in Slots, pre \in {"ok", "raise"}, reads \in PolicyReads,
          how \in PipelineTranslateOutcomes : ProcessItem(r, pre, reads, how)
    \/ \E r \in Slots, db \in {"ok", "raise"} : SaveArticle(r, db)

Spec == Init /\ [][Next]_vars

\* runs one after the other: slot 1 alone, starting MaxStarts runs
InitSerial ==
    /\ InitTables
    /\ edits = 0
    /\ ret = NoCall
    /\ InitPipelineVars
    /\ InitServiceVars
    /\ startsLeft = [r \in Slots |-> IF r = 1 THEN MaxStarts ELSE 0]
    /\ faultsLeft = MaxFaults

SpecSerial == InitSerial /\ [][Next]_vars

\* one run under each configuration of the source and subscription tables
ConfigActive == {"s1", "s2", "s3"}

ConfigDefault == {"s1", "s2"}

ConfigPairs == {<<"u1", "s1">>, <<"u1", "s2">>, <<"u2", "s2">>}

InitConfig ==
    /\ \E active \in SUBSET ConfigActive, default \in SUBSET ConfigDefault,
          enabled \in SUBSET ConfigPairs :
          /\ newsSource = [s \in SourceIds |->
                [isActive   |-> s \in active \cup {"s5", "s7"},
                 isDefault  |-> s \in default \cup {"s3", "s6", "s7"},
                 sourceType |-> IF s = "s5" THEN "api" ELSE "rss"]]
          /\ userNewsSource =
                {SubRow(p[1], p[2], [isEnabled |-> p \in enabled,
                                     autoTranslate |-> TRUE]) : p \in ConfigPairs}
                \cup {SubRow("u2", "s3", [isEnabled |-> FALSE, autoTranslate |-> TRUE]),
                      SubRow("u2", "s6", [isEnabled |-> TRUE,  autoTranslate |-> FALSE])}
    /\ userSettings = [u \in UserIds |-> IF u = "u1" THEN "on" ELSE "none"]
    /\ systemSettings = "off"
    /\ edits = 0
    /\ ret = NoCall
    /\ InitPipelineVars
    /\ InitServiceVars
    /\ startsLeft = [r \in Slots |-> IF r = 1 THEN 1 ELSE 0]
    /\ faultsLeft = 1

SpecConfig == InitConfig /\ [][Next]_vars

----------------------------------------------------------------------------
(* SpecTranslate: calls of translateTitle against the title cache *)

CallTranslateTitle(title, how) ==
    /\ ret' = [op |-> "translateTitle", title |-> title, how |-> how,
               hit |-> Cached(title) # {},
               raised |-> TranslateTitle(title, how).raised,
               value |-> TranslateTitle(title, how).ret]
    /\ titleTranslation' = TranslateTitle(title, how).cache
    /\ UNCHANGED <<articles, nextId, run, startsLeft, faultsLeft, lastSweep, edits>>
    /\ UNCHANGED tables /\ UNCHANGED retentionVars /\ UNCHANGED serviceVars

InitTranslate ==
    /\ InitTables
    /\ edits = 0
    /\ ret = NoCall
    /\ InitPipelineVars
    /\ InitServiceVars
    /\ startsLeft = [r \in Slots |-> 0]
    /\ faultsLeft = 0

NextTranslate ==
    \E title \in Titles, how \in TranslateOutcomes : CallTranslateTitle(title, how)

SpecTranslate == InitTranslate /\ [][NextTranslate]_vars

----------------------------------------------------------------------------
(* Claims about the ingestion runs *)

Range(seq) == {seq[i] : i \in 1..Len(seq)}

Entries(r) == Range(run[r].log)

\* C1: in every reachable state, whatever the interleaving of full sweeps and
\* single-source runs, no two Article rows share an origin URL.
C1_UniqueOriginUrl ==
    \A a, b \in articles : a.originalUrl = b.originalUrl => a = b

\* C1 witness: a sweep and a single-source run both passed the existence
\* pre-check for the same link, the row exists once, and one of the two runs
\* had its insert rejected.
C1_Witness ==
    \E r, q \in Slots :
        /\ run[r].kind = "sweep"
        /\ run[q].kind = "single"
        /\ \E i \in 1..Len(run[r].batch), j \in 1..Len(run[q].batch) :
              /\ run[r].batch[i].originalUrl = run[q].batch[j].originalUrl
              /\ ExistingArticle(run[r].batch[i].originalUrl)
        /\ run[r].rejected + run[q].rejected > 0

\* a full sweep that returned, ran alone, and started right after another
\* full sweep with nothing written in between
SecondSweep(r) ==
    /\ run[r].kind = "sweep"
    /\ run[r].pc = "done"
    /\ run[r].alone
    /\ run[r].prev.some

C3_AsStated ==
    \A r \in Slots : \A e \in Entries(r) :
        (run[r].kind = "sweep" /\ e.fetchFailures = maxRetries)
            => /\ e.attempts = maxRetries
               /\ e.items = 0
               /\ e.errorsAdded = 1

\* the processing of a source met a failure that was not recovered: its feed
\* was given up, or an insert failed for a reason other than a duplicate
SourceFailed(e) == e.gaveUp \/ e.raised > 0

\* C4 as stated: a failure while processing a source never aborts a full
\* sweep; every source is still processed in order, each failed source is
\* added to the error counter, and the sweep returns its summary.
C4_AsStated ==
    \A r \in Slots :
        run[r].kind = "sweep"
            => /\ run[r].pc = "failed" => run[r].outcome = "QueryError"
               /\ \A i \in 1..Len(run[r].log) :
                      /\ run[r].log[i].source = run[r].sources[i]
                      /\ SourceFailed(run[r].log[i]) => run[r].log[i].errorsAdded >= 1
               /\ run[r].pc = "done" => Len(run[r].log) = Len(run[r].sources)

\* the sources the data model calls active
ActiveSet ==
    {s \in SourceIds :
        /\ newsSource[s].isActive
        /\ \/ ~newsSource[s].isDefault
           \/ \E row \in userNewsSource : row.newsSourceId = s /\ row.isEnabled}

\* C5: the list getActiveNewsSources returns to a full sweep holds exactly
\* the active sources that are non-default or have an enabled subscription,
\* each once, and the sweep requests the feed of no other source.
C5_ActiveSourcesOnly ==
    \A r \in Slots :
        (run[r].kind = "sweep" /\ run[r].outcome # "QueryError")
            => /\ Range(run[r].sources) = ActiveSet
               /\ Len(run[r].sources) = Cardinality(ActiveSet)
               /\ run[r].fetched \subseteq ActiveSet
               /\ \A e \in Entries(r) : e.source \in ActiveSet

\* C5 witness: a sweep returned having fetched s1's feed while an inactive
\* source, a default source with only a disabled subscription and a default
\* source with no subscription exist and were left alone.
C5_Witness ==
    \E r \in Slots :
        /\ run[r].kind = "sweep"
        /\ run[r].pc = "done"
        /\ "s1" \in run[r].fetched
        /\ ~newsSource["s2"].isActive
        /\ newsSource["s3"].isActive
        /\ run[r].fetched \cap {"s2", "s3", "s7"} = {}

\* C6: a single-source run whose source lookup answers fails as
\* source-not-found when the id has no row or the row is inactive, and as
\* no-active-subscribers when the row is an active default source with no
\* enabled subscription; in both cases no feed is requested and no Article
\* row is created.
C6_SingleSourceRefused ==
    \A r \in Slots :
        (run[r].kind = "single" /\ run[r].outcome # "QueryError")
            => LET id == run[r].target
                   missing == id \notin SourceIds \/ ~newsSource[id].isActive
                   unsubscribed ==
                       /\ ~missing
                       /\ newsSource[id].isDefault
                       /\ ~\E row \in userNewsSource :
                              row.newsSourceId = id /\ row.isEnabled
               IN  /\ missing => (run[r].pc = "failed"
                                  /\ run[r].outcome = "SourceNotFound")
                   /\ unsubscribed => (run[r].pc = "failed"
                                       /\ run[r].outcome = "NoSubscribers")
                   /\ (missing \/ unsubscribed)
                        => /\ run[r].fetched = {}
                           /\ run[r].log = <<>>
                           /\ run[r].batch = <<>>
                           /\ articles = {}

\* C6 witness: a single-source run on an active default source without an
\* enabled subscription was refused.
C6_Witness ==
    \E r \in Slots :
        /\ run[r].kind = "single"
        /\ run[r].outcome = "NoSubscribers"
        /\ run[r].target = "s2"
        /\ newsSource["s2"].isActive

\* C10: saveArticles handles every item of its batch; a rejected duplicate is
\* counted neither as created nor as an error, every other insert failure
\* adds 1 to errors and the loop goes on, so created + errors + duplicate
\* skips is the number of items.
C10_SaveArticlesCounts ==
    \A r \in Slots :
        /\ \A e \in Entries(r) :
              /\ e.errors = e.raised
              /\ e.created + e.errors + e.rejected = e.items
        /\ run[r].pc = "save"
              => /\ run[r].errors = run[r].raised
                 /\ run[r].created + run[r].errors + run[r].rejected = run[r].bi - 1

\* C10 witness: one batch had an insert fail, went on, and then had a
\* duplicate rejected.
C10_Witness ==
    \E r \in Slots : \E e \in Entries(r) :
        /\ e.items = 2
        /\ e.errors = 1
        /\ e.rejected = 1

----------------------------------------------------------------------------
(* Claims about translateTitle (SpecTranslate) *)

\* C9: translateTitle never raises to its caller; when the cache lookup
\* raises, or the translator raises on a miss, it returns the original title;
\* when the cache write raises after a translation, it returns the translation.
C9_TranslateNeverFails ==
    ret.op = "translateTitle"
        => /\ ~ret.raised
           /\ ret.how = "lookupRaise" => ret.value = ret.title
           /\ (ret.how = "llmRaise" /\ ~ret.hit) => ret.value = ret.title
           /\ (ret.how = "upsertRaise" /\ ~ret.hit)
                => /\ ret.value = Zh(ret.title, "v1")
                   /\ Cached(ret.title) = {}

\* C9 witness: the translator raised on a cache miss and the call returned
\* the original title.
C9_Witness ==
    /\ ret.op = "translateTitle"
    /\ ret.how = "llmRaise"
    /\ ~ret.hit
    /\ ret.value = ret.title

----------------------------------------------------------------------------
(* SpecRetention: one cleanupOldArticles call *)

\* articles.length > 100, articles.slice(100)
KeepLatest == 100

\* cutoffDate.setDate(cutoffDate.getDate() - 30)
RetainDays == 30

CutoffDate == Now - RetainDays

\* rows an overlapping ingestion run may insert, and failures the
\* environment may inject, during one cleanup
MaxWrites == 1

MaxCleanupFaults == 1

\* the order in which prisma.user.findMany lists the users
UserOrder == <<"u1", "u2">>

\* user.newsSources of the users query: the enabled subscriptions of a user
NewsSourcesOf(u) ==
    SelectSeq(SourceOrder,
              LAMBDA sourceId : \E row \in userNewsSource :
                                    /\ row.userId = u
                                    /\ row.newsSourceId = sourceId
                                    /\ row.isEnabled)

\* the (user, userSource) iterations of the two nested loops, in order
UserSources == NewsSourcesOf(UserOrder[1]) \o NewsSourcesOf(UserOrder[2])

\* prisma.article.findMany({ where: { sourceId } })
ArticlesOf(rows, sourceId) == {a \in rows : a.sourceId = sourceId}

\* orderBy publishedAt desc: a is listed before b; rows of one publish time
\* come in an order the database picks
OrderedBefore_asc(a, b, tie) ==
    \/ a.publishedAt < b.publishedAt
    \/ /\ a.publishedAt = b.publishedAt
       /\ IF tie = "idAsc" THEN a.id < b.id ELSE a.id > b.id

OrderedBefore(a, b, tie) ==
    \/ a.publishedAt > b.publishedAt
    \/ /\ a.publishedAt = b.publishedAt
       /\ IF tie = "idAsc" THEN a.id < b.id ELSE a.id > b.id

\* the index of a row in the ordered list, from 0
IndexOf(a, listed, tie) ==
    Cardinality({b \in listed : OrderedBefore(b, a, tie)})

\* articles.slice(100).map(a => a.id)
ArticlesToDelete_sliceEarly(listed, tie) ==
    {a.id : a \in {b \in listed : IndexOf(b, listed, tie) >= KeepLatest - 1}}

ArticlesToDelete(listed, tie) ==
    {a.id : a \in {b \in listed : IndexOf(b, listed, tie) >= KeepLatest}}

\* userNewsSource.findMany({ where: { isEnabled: true }, distinct: ['sourceId'] })
SubscribedIds ==
    {row.newsSourceId : row \in {r \in userNewsSource : r.isEnabled}}

\* the point of the call after iteration ui of the nested loops
NextUserSource(c) ==
    IF c.ui >= Len(c.userSources)
    THEN [c EXCEPT !.pc = "subscribed"]
    ELSE [c EXCEPT !.pc = "list", !.ui = @ + 1]

\* the catch of cleanupOldArticles: log and rethrow
CleanupFailed(c) == [c EXCEPT !.pc = "failed"]

CleanupActive == cleanup.pc \in {"list", "delete", "subscribed", "expire"}

\* a query of the call raises only while the environment has failures left
MayRaise(db) ==
    /\ db = "raise" => faultsLeft > 0
    /\ faultsLeft' = faultsLeft - (IF db = "raise" THEN 1 ELSE 0)

\* cleanupOldArticles() up to its users query. History, read by no step:
\* before (the Article table at the start), removed (rows its deleteMany
\* calls removed).
CleanupOldArticles(db) ==
    /\ cleanup.pc = "idle"
    /\ MayRaise(db)
    /\ LET c == [pc |-> "list", userSources |-> UserSources, ui |-> 1,
                 articleIds |-> {}, subscribedIds |-> {}, totalDeleted |-> 0,
                 before |-> articles, removed |-> {}]
       IN  cleanup' = IF db = "raise" THEN CleanupFailed(c)
                      ELSE IF Len(c.userSources) = 0
                      THEN [c EXCEPT !.pc = "subscribed"]
                      ELSE c
    /\ UNCHANGED <<articles, nextId, titleTranslation, run, startsLeft, lastSweep,
                   writesLeft>>
    /\ UNCHANGED tables /\ UNCHANGED policyVars /\ UNCHANGED serviceVars

\* one iteration of the inner loop up to its deleteMany: list the source's
\* articles, newest first, and pick those beyond the 100th
ListArticles(db, tie) ==
    /\ cleanup.pc = "list"
    /\ MayRaise(db)
    /\ LET sourceId == cleanup.userSources[cleanup.ui]
           listed   == ArticlesOf(articles, sourceId)
       IN  /\ (db = "raise" \/ Cardinality(listed) <= KeepLatest) => tie = "idAsc"
           /\ cleanup' =
                IF db = "raise" THEN CleanupFailed(cleanup)
                ELSE IF Cardinality(listed) > KeepLatest
                THEN [cleanup EXCEPT !.pc = "delete",
                                     !.articleIds = ArticlesToDelete(listed, tie)]
                ELSE NextUserSource(cleanup)
    /\ UNCHANGED <<articles, nextId, titleTranslation, run, startsLeft, lastSweep,
                   writesLeft>>
    /\ UNCHANGED tables /\ UNCHANGED policyVars /\ UNCHANGED serviceVars

\* deleteMany({ id in articleIds, sourceId }); totalDeleted += deleteResult.count
DeleteArticles(db) ==
    /\ cleanup.pc = "delete"
    /\ MayRaise(db)
    /\ LET sourceId == cleanup.userSources[cleanup.ui]
           matched  == {a \in ArticlesOf(articles, sourceId) :
                            a.id \in cleanup.articleIds}
       IN  IF db = "raise"
           THEN /\ cleanup' = CleanupFailed(cleanup)
                /\ UNCHANGED articles
           ELSE /\ articles' = articles \ matched
                /\ cleanup' = NextUserSource(
                       [cleanup EXCEPT !.totalDeleted = @ + Cardinality(matched),
                                       !.removed = @ \cup matched])
    /\ UNCHANGED <<nextId, titleTranslation, run, startsLeft, lastSweep, writesLeft>>
    /\ UNCHANGED tables /\ UNCHANGED policyVars /\ UNCHANGED serviceVars

\* the query of the subscribed source ids, and the test of its length
FindSubscribedIds(db) ==
    /\ cleanup.pc = "subscribed"
    /\ MayRaise(db)
    /\ cleanup' = IF db = "raise" THEN CleanupFailed(cleanup)
                  ELSE IF Cardinality(SubscribedIds) > 0
                  THEN [cleanup EXCEPT !.pc = "expire",
                                       !.subscribedIds = SubscribedIds]
                  ELSE [cleanup EXCEPT !.pc = "done"]
    /\ UNCHANGED <<articles, nextId, titleTranslation, run, startsLeft, lastSweep,
                   writesLeft>>
    /\ UNCHANGED tables /\ UNCHANGED policyVars /\ UNCHANGED serviceVars

\* deleteMany({ sourceId notIn subscribedIds, publishedAt < cutoffDate });
\* totalDeleted += unsubscribedCleanup.count; return totalDeleted
ExpireUnsubscribed(db) ==
    /\ cleanup.pc = "expire"
    /\ MayRaise(db)
    /\ LET matched == {a \in articles : /\ a.sourceId \notin cleanup.subscribedIds
                                        /\ a.publishedAt < CutoffDate}
       IN  IF db = "raise"
           THEN /\ cleanup' = CleanupFailed(cleanup)
                /\ UNCHANGED articles
           ELSE /\ articles' = articles \ matched
                /\ cleanup' = [cleanup EXCEPT !.pc = "done",
                                              !.totalDeleted = @ + Cardinality(matched),
                                              !.removed = @ \cup matched]
    /\ UNCHANGED <<nextId, titleTranslation, run, startsLeft, lastSweep, writesLeft>>
    /\ UNCHANGED tables /\ UNCHANGED policyVars /\ UNCHANGED serviceVars

\* prisma.article.create of an ingestion run that overlaps the cleanup
CreateDuringCleanup(sourceId, day) ==
    /\ CleanupActive
    /\ writesLeft > 0
    /\ writesLeft' = writesLeft - 1
    /\ articles' = articles \cup
          {CreatedRow([sourceId |-> sourceId, originalUrl |-> ToString(nextId),
                       titleEn |-> En("D"), titleCn |-> Null, publishedAt |-> day])}
    /\ nextId' = nextId + 1
    /\ UNCHANGED <<titleTranslation, run, startsLeft, faultsLeft, lastSweep, cleanup>>
    /\ UNCHANGED tables /\ UNCHANGED policyVars /\ UNCHANGED serviceVars

\* the stored articles of a source before the call: n rows whose publish
\* times are not in id order, some of them equal
SeedDay(i) == 60 + ((i * 7) % 23)

SeedBase(sourceId) ==
    CASE sourceId = "s1" -> 1000
      [] sourceId = "s2" -> 2000
      [] OTHER           -> 3000

Seed(sourceId, n) ==
    {[id |-> SeedBase(sourceId) + i, sourceId |-> sourceId,
      originalUrl |-> ToString(SeedBase(sourceId) + i), titleEn |-> En("A"),
      titleCn |-> Null, publishedAt |-> SeedDay(i)] : i \in 1..n}

RetentionPairs == {<<"u1", "s1">>, <<"u2", "s1">>, <<"u1", "s2">>, <<"u2", "s3">>}

InitRetention ==
    /\ newsSource = [s \in SourceIds |->
          [isActive |-> TRUE, isDefault |-> FALSE, sourceType |-> "rss"]]
    /\ \E enabled \in SUBSET RetentionPairs :
          userNewsSource =
              {SubRow(p[1], p[2], [isEnabled |-> p \in enabled,
                                   autoTranslate |-> FALSE]) : p \in RetentionPairs}
    /\ userSettings = [u \in UserIds |-> "none"]
    /\ systemSettings = "off"
    /\ edits = 0
    /\ ret = NoCall
    /\ \E n1 \in {KeepLatest, KeepLatest + 1, KeepLatest + 3},
          n2 \in {4, KeepLatest + 2} :
          articles = Seed("s1", n1) \cup Seed("s2", n2) \cup Seed("s3", 5)
    /\ nextId = 5000
    /\ titleTranslation = {}
    /\ run = [r \in Slots |-> IdleRun]
    /\ startsLeft = [r \in Slots |-> 0]
    /\ lastSweep = NoSweep
    /\ faultsLeft = MaxCleanupFaults
    /\ cleanup = NoCleanup
    /\ writesLeft = MaxWrites
    /\ InitServiceVars

NextRetention ==
    \/ \E db \in {"ok", "raise"} : CleanupOldArticles(db)
    \/ \E db \in {"ok", "raise"}, tie \in {"idAsc", "idDesc"} : ListArticles(db, tie)
    \/ \E db \in {"ok", "raise"} : DeleteArticles(db)
    \/ \E db \in {"ok", "raise"} : FindSubscribedIds(db)
    \/ \E db \in {"ok", "raise"} : ExpireUnsubscribed(db)
    \/ \E sourceId \in {"s1", "s3"}, day \in {61, Now} :
          CreateDuringCleanup(sourceId, day)

SpecRetention == InitRetention /\ [][NextRetention]_vars

----------------------------------------------------------------------------
(* SpecTasks: the two scheduled tasks, and a manual run, side by side *)

\* CronTaskManager.fetchNews / cleanupOldArticles: await the service call,
\* log; the catch logs and throws the error again
TaskOutcome(servicePc) ==
    IF servicePc = "failed" THEN "throws"
    ELSE IF servicePc = "done" THEN "returns"
    ELSE "pending"

\* the callback cron.schedule runs: await config.task(); its catch logs
CronCallbackOutcome(taskOutcome) ==
    IF taskOutcome = "throws" THEN "logged failure"
    ELSE IF taskOutcome = "returns" THEN "logged completion"
    ELSE "pending"

\* runJobManually(jobKey): await config.task(); its catch throws again
RunJobManuallyOutcome(taskOutcome) ==
    IF taskOutcome = "throws" THEN "throws"
    ELSE IF taskOutcome = "returns" THEN "returns"
    ELSE "pending"

InitTasks ==
    /\ InitTables
    /\ edits = 0
    /\ ret = NoCall
    /\ articles = Seed("s2", KeepLatest + 1)
    /\ nextId = 5000
    /\ titleTranslation = {}
    /\ run = [r \in Slots |-> IdleRun]
    /\ startsLeft = [r \in Slots |-> IF r = 1 THEN 1 ELSE 0]
    /\ lastSweep = NoSweep
    /\ faultsLeft = MaxCleanupFaults
    /\ cleanup = NoCleanup
    /\ writesLeft = 0
    /\ InitServiceVars

NextTasks ==
    \/ Next
    \/ \E db \in {"ok", "raise"} : CleanupOldArticles(db)
    \/ \E db \in {"ok", "raise"}, tie \in {"idAsc", "idDesc"} : ListArticles(db, tie)
    \/ \E db \in {"ok", "raise"} : DeleteArticles(db)
    \/ \E db \in {"ok", "raise"} : FindSubscribedIds(db)
    \/ \E db \in {"ok", "raise"} : ExpireUnsubscribed(db)

SpecTasks == InitTasks /\ [][NextTasks]_vars

----------------------------------------------------------------------------
(* Claims about the retention sweep (SpecRetention) *)

\* the call returned and no other writer touched the Article table since it
\* started: every row it found is still there or was removed by it, and
\* there is no other row
QuietCleanupDone ==
    /\ cleanup.pc = "done"
    /\ articles \cup cleanup.removed = cleanup.before

Min(a, b) == IF a <= b THEN a ELSE b

\* C11: after a retention sweep with no concurrent writer, every source with
\* at least one enabled subscription holds min(n, 100) of the n articles it
\* had before, and every deleted article is no newer than every survivor.
C11_KeepsLatestHundred ==
    QuietCleanupDone
        => \A s \in SubscribedIds :
              LET had  == ArticlesOf(cleanup.before, s)
                  kept == ArticlesOf(articles, s)
              IN  /\ kept \subseteq had
                  /\ Cardinality(kept) = Min(Cardinality(had), KeepLatest)
                  /\ \A d \in had \ kept : \A k \in kept :
                        d.publishedAt <= k.publishedAt

\* C11 witness: a quiet sweep trimmed subscribed source s1 from 103 articles
\* to 100 and left subscribed source s2, which held 4, alone.
C11_Witness ==
    /\ QuietCleanupDone
    /\ {"s1", "s2"} \subseteq SubscribedIds
    /\ Cardinality(ArticlesOf(cleanup.before, "s1")) = KeepLatest + 3
    /\ Cardinality(ArticlesOf(articles, "s1")) = KeepLatest
    /\ Cardinality(ArticlesOf(articles, "s2")) = 4

\* C12 as stated: after a retention sweep, for every source with no enabled
\* subscription, whether or not any other source has one, every article of
\* it older than 30 days is gone and every article newer than 30 days is kept.
C12_AsStated ==
    cleanup.pc = "done"
        => \A s \in SourceIds \ SubscribedIds :
              \A a \in ArticlesOf(cleanup.before, s) :
                  /\ a.publishedAt < CutoffDate => a \notin articles
                  /\ a.publishedAt > CutoffDate => a \in articles

\* C20: the count the sweep returns is the number of Article rows it removed;
\* when two or more viewers have an enabled subscription to a source holding
\* n > 100 articles, a sweep with no concurrent writer removes exactly
\* n - 100 of them and leaves 100.
C20_CountsEachDeletionOnce ==
    /\ cleanup.pc # "idle" => cleanup.totalDeleted = Cardinality(cleanup.removed)
    /\ QuietCleanupDone
         => /\ articles \subseteq cleanup.before
            /\ cleanup.totalDeleted
                 = Cardinality(cleanup.before) - Cardinality(articles)
            /\ \A s \in SourceIds :
                  LET viewers == {row \in userNewsSource :
                                      row.newsSourceId = s /\ row.isEnabled}
                      n == Cardinality(ArticlesOf(cleanup.before, s))
                  IN  (Cardinality(viewers) >= 2 /\ n > KeepLatest)
                        => /\ Cardinality(ArticlesOf(cleanup.removed, s))
                                = n - KeepLatest
                           /\ Cardinality(ArticlesOf(articles, s)) = KeepLatest

\* C20 witness: two viewers share source s1, which held 101 articles; the
\* sweep returned having removed one of them, and expired old articles of an
\* unsubscribed source as well.
C20_Witness ==
    /\ QuietCleanupDone
    /\ Cardinality({row \in userNewsSource :
                       row.newsSourceId = "s1" /\ row.isEnabled}) = 2
    /\ Cardinality(ArticlesOf(cleanup.before, "s1")) = KeepLatest + 1
    /\ Cardinality(ArticlesOf(cleanup.removed, "s1")) = 1
    /\ ArticlesOf(cleanup.removed, "s3") # {}
    /\ cleanup.totalDeleted = Cardinality(cleanup.removed)

----------------------------------------------------------------------------
(* SpecSanitize: extractContent and cleanHtmlContent *)

\* An HTML string is written as the node sequence it parses to. A node has
\* a tag, the names of its attributes, its classes and its children.
El(tag, attrs, cls, kids) ==
    [tag |-> tag, attrs |-> attrs, cls |-> cls, kids |-> kids]

Text == El("#text", {}, {}, <<>>)

\* no element (document.body of a document whose root is not html)
NoElement == El("#none", {}, {}, <<>>)

\* new JSDOM(html).window.document: the parser wraps the content in
\* html > (head, body); the document is written as its child sequence
JSDOM(html) ==
    << El("html", {}, {}, << El("head", {}, {}, <<>>),
                            El("body", {}, {}, html) >>) >>

\* unwantedSelectors, split into its tag selectors and its class selectors
UnwantedTags(contentType) ==
    {"script", "style", "nav", "header", "footer"}
        \cup (IF contentType = "text"
              THEN {"img", "figure", "video", "iframe"} ELSE {})

UnwantedClasses(contentType) ==
    {"advertisement", "ads", "social-share", "comments"}
        \cup (IF contentType = "text" THEN {"image", "photo"} ELSE {})

\* el matches one of the unwanted selectors
Unwanted(el, contentType) ==
    \/ el.tag \in UnwantedTags(contentType)
    \/ el.cls \cap UnwantedClasses(contentType) # {}

\* unwantedSelectors.forEach(... querySelectorAll(selector) ... el.remove())
RECURSIVE RemoveUnwanted(_, _)
RemoveUnwanted(nodes, contentType) ==
    IF nodes = <<>> THEN <<>>
    ELSE LET el   == Head(nodes)
             rest == RemoveUnwanted(Tail(nodes), contentType)
         IN  IF Unwanted(el, contentType)
             THEN rest
             ELSE << [el EXCEPT !.kids = RemoveUnwanted(@, contentType)] >> \o rest

AllowedTags(contentType) ==
    {"p", "h1", "h2", "h3", "h4", "h5", "h6", "strong", "em", "ul", "ol", "li",
     "a", "blockquote", "code", "pre", "br"}
        \cup (IF contentType = "text" THEN {} ELSE {"img"})

AllowedAttrs(contentType) ==
    {"href", "title"} \cup (IF contentType = "text" THEN {} ELSE {"src", "alt"})

\* div.innerHTML = el.innerHTML: the children are serialised and parsed again
\* inside a div, where the parser drops html, head and body tags and keeps
\* what they contain
RECURSIVE InnerHTML(_)
InnerHTML(nodes) ==
    IF nodes = <<>> THEN <<>>
    ELSE LET el == Head(nodes)
         IN  (IF el.tag \in {"html", "head", "body"}
              THEN InnerHTML(el.kids)
              ELSE << el >>) \o InnerHTML(Tail(nodes))

\* The loop over document.querySelectorAll('*'), a list fixed before the
\* loop, in document order, the html element first. An element whose tag is
\* not allowed is replaced by a div holding a parsed copy of its content; the
\* elements it held stay in the list but are no longer in the document, so
\* the copy is left as it is. An allowed element loses its other attributes.
RECURSIVE CleanElements(_, _)
CleanElements(nodes, contentType) ==
    IF nodes = <<>> THEN <<>>
    ELSE LET el   == Head(nodes)
             rest == CleanElements(Tail(nodes), contentType)
         IN  IF el.tag = "#text"
             THEN << el >> \o rest
             ELSE IF el.tag \notin AllowedTags(contentType)
             THEN << El("div", {}, {}, InnerHTML(el.kids)) >> \o rest
             ELSE << El(el.tag, el.attrs \cap AllowedAttrs(contentType), {},
                        CleanElements(el.kids, contentType)) >> \o rest

\* document.body: the body child of the root when the root is an html
\* element, else null
DocumentBody(document) ==
    IF /\ Len(document) = 1
       /\ document[1].tag = "html"
       /\ \E i \in 1..Len(document[1].kids) : document[1].kids[i].tag = "body"
    THEN LET i == CHOOSE j \in 1..Len(document[1].kids) :
                      document[1].kids[j].tag = "body"
         IN  document[1].kids[i]
    ELSE NoElement

\* cleanHtmlContent(html, contentType): document.body.innerHTML, or, when
\* reading it raises, the catch's return html
CleanHtmlContent(html, contentType) ==
    LET document == CleanElements(RemoveUnwanted(JSDOM(html), contentType),
                                  contentType)
        body     == DocumentBody(document)
    IN  IF body = NoElement
        THEN [raised |-> TRUE, ret |-> html]
        ELSE [raised |-> FALSE, ret |-> body.kids]

\* extractContent(rawContent, url, contentType): short content is replaced by
\* what fetchFullContent answers, if it answers; then cleaned
ExtractContent(rawContent, short, fullContent, contentType) ==
    CleanHtmlContent(IF short /\ fullContent # <<>> THEN fullContent
                     ELSE rawContent,
                     contentType).ret

\* the elements of raw inputs: media with several attributes, text, a link
Leaves ==
    { Text,
      El("img", {"src", "alt", "class", "onclick"}, {"photo"}, <<>>),
      El("img", {"src", "alt", "width"}, {}, <<>>),
      El("video", {"src"}, {}, <<>>),
      El("iframe", {"src"}, {}, <<>>),
      El("a", {"href", "onclick"}, {}, << Text >>) }

Wrapped ==
    { El(tag, {}, {}, << leaf >>) : tag \in {"p", "figure", "span"}, leaf \in Leaves }

\* raw inputs: one or two nodes, media elements at the top or nested
RawInputs ==
    { << n >> : n \in Leaves \cup Wrapped }
        \cup { << n, m >> : n \in Wrapped, m \in Leaves }

ContentTypes == {"text", "media"}

CallExtractContent(rawContent, short, fullContent, contentType) ==
    /\ ret' = [op |-> "extractContent", html |-> rawContent, short |-> short,
               fullContent |-> fullContent, contentType |-> contentType,
               raised |-> CleanHtmlContent(
                              IF short /\ fullContent # <<>> THEN fullContent
                              ELSE rawContent, contentType).raised,
               value |-> ExtractContent(rawContent, short, fullContent, contentType)]
    /\ UNCHANGED <<edits>>
    /\ UNCHANGED tables /\ UNCHANGED pipelineVars /\ UNCHANGED retentionVars /\ UNCHANGED serviceVars

InitSanitize ==
    /\ InitTables
    /\ edits = 0
    /\ ret = NoCall
    /\ InitPipelineVars
    /\ InitServiceVars
    /\ startsLeft = [r \in Slots |-> 0]
    /\ faultsLeft = 0

NextSanitize ==
    \E rawContent \in RawInputs, short \in BOOLEAN,
       fullContent \in {<<>>, << El("p", {}, {}, << Text >>),
                                 El("img", {"src", "style"}, {}, <<>>) >>},
       contentType \in ContentTypes :
        /\ ~short => fullContent = <<>>
        /\ CallExtractContent(rawContent, short, fullContent, contentType)

SpecSanitize == InitSanitize /\ [][NextSanitize]_vars

----------------------------------------------------------------------------
(* Claims about the sanitizer (SpecSanitize) *)

\* the elements of a node sequence, at any depth
RECURSIVE Elements(_)
Elements(nodes) ==
    IF nodes = <<>> THEN {}
    ELSE {Head(nodes)} \cup Elements(Head(nodes).kids) \cup Elements(Tail(nodes))

\* the content extractContent hands to cleanHtmlContent
CleanedInput ==
    IF ret.short /\ ret.fullContent # <<>> THEN ret.fullContent ELSE ret.html

\* C13 as stated: for a text-only source the HTML extractContent returns
\* holds no img, figure, video or iframe element, at any depth, whatever the
\* raw input.
C13_AsStated ==
    (ret.op = "extractContent" /\ ret.contentType = "text")
        => \A el \in Elements(ret.value) :
              el.tag \notin {"img", "figure", "video", "iframe"}

\* C14 as stated: for a media source, when the input holds an img element
\* with src, alt and other attributes, the output holds img elements, and
\* each of them has exactly the attributes src and alt.
C14_AsStated ==
    (/\ ret.op = "extractContent"
     /\ ret.contentType = "media"
     /\ \E el \in Elements(CleanedInput) :
            el.tag = "img" /\ {"src", "alt"} \subseteq el.attrs /\ el.attrs # {"src", "alt"})
        => /\ \E el \in Elements(ret.value) : el.tag = "img"
           /\ \A el \in Elements(ret.value) :
                  el.tag = "img" => el.attrs = {"src", "alt"}

----------------------------------------------------------------------------
(* Claims about the scheduled tasks (SpecTasks) *)

\* C15 as stated: no failure of the ingestion or retention subsystem reaches
\* the scheduled task as an exception: fetchAllNews and cleanupOldArticles
\* always return their count, also when a query of theirs fails, so neither
\* scheduled task throws.
C15_AsStated ==
    /\ \A r \in Slots :
          run[r].kind = "sweep" => TaskOutcome(run[r].pc) # "throws"
    /\ TaskOutcome(cleanup.pc) # "throws"

----------------------------------------------------------------------------
(* The manual single-source refresh (articleController.refreshSingleSource) *)

\* the ways fetchSingleSource fails: its lookup raises, it finds no active
\* row, or the row is a default source without an enabled subscription
FailureKinds == {"QueryError", "SourceNotFound", "NoSubscribers"}

\* createError(message, statusCode)
CreateError(message, statusCode) ==
    [success |-> FALSE, message |-> message, statusCode |-> statusCode]

\* what refreshSingleSource hands to its caller for a fetchSingleSource call:
\* the summary when it returned, and from its catch, whatever was thrown,
\* createError('单个新闻源刷新失败', 500)
RefreshSingleSource(rec) ==
    IF rec.pc = "failed"
    THEN CreateError("single source refresh failed", 500)
    ELSE [success |-> TRUE, message |-> "source refreshed", statusCode |-> 200,
          totalArticles |-> rec.totalArticles, totalErrors |-> rec.totalErrors]

\* C16 as stated: when a manual single-source refresh fails, what reaches the
\* caller tells the failure's kind: it differs from what the caller would get
\* for each other kind of failure (not found or inactive, no enabled
\* subscribers, a generic failure).
C16_AsStated ==
    \A r \in Slots :
        (run[r].kind = "single" /\ run[r].pc = "failed")
            => \A other \in FailureKinds \ {run[r].outcome} :
                  RefreshSingleSource(run[r])
                      # RefreshSingleSource([run[r] EXCEPT !.outcome = other])

----------------------------------------------------------------------------
(* Claims about overlapping runs (Spec) *)

\* a full sweep in slot r and a single-source run in slot q overlapped on a
\* source of the sweep, and both have returned
OverlappedPair(r, q) ==
    /\ run[r].kind = "sweep" /\ run[r].pc = "done"
    /\ run[q].kind = "single" /\ run[q].pc = "done"
    /\ ~run[r].alone /\ ~run[q].alone
    /\ run[q].target \in Range(run[r].sources)

\* the origin URLs one full sweep on its own stores: the links of the valid
\* items of the feeds of its rss sources
SweepUrls(r) ==
    UNION {{item.link : item \in {x \in Range(Feed(src)) :
                                     x.title # NoTitle /\ x.link # NoLink}} :
           src \in {x \in Range(run[r].sources) : newsSource[x].sourceType = "rss"}}

\* the record a run builds for item i of the feed of src, without its id
Built(src, i) ==
    MakeArticle(src, Feed(src)[i],
                IF ShouldTranslateTitle(src, "ok")
                THEN Zh(Feed(src)[i].title, "v1") ELSE Null)

\* a stored row is the record a run builds for the first valid item with
\* that link in the feed of the row's source
BuiltByARun(a) ==
    \E i \in 1..Len(Feed(a.sourceId)) :
        /\ Feed(a.sourceId)[i].title # NoTitle
        /\ Feed(a.sourceId)[i].link # NoLink
        /\ Feed(a.sourceId)[i].link = a.originalUrl
        /\ \A j \in 1..(i - 1) :
              \/ Feed(a.sourceId)[j].title = NoTitle
              \/ Feed(a.sourceId)[j].link # a.originalUrl
        /\ [sourceId |-> a.sourceId, titleEn |-> a.titleEn, titleCn |-> a.titleCn,
            originalUrl |-> a.originalUrl, publishedAt |-> a.publishedAt]
              = Built(a.sourceId, i)

----------------------------------------------------------------------------
(* Claims about one fetchFromRSS call (SpecSerial) *)

\* the delays of a call that has had n failed attempts followed by another
RetryDelays(n) == SubSeq(<<2000, 4000>>, 1, n)

\* C18: a fetchFromRSS call requests the feed at most 3 times; it sleeps
\* 2000 ms after a failed first attempt and 4000 ms after a failed second
\* one, nothing after a failed third one, and once an attempt has succeeded
\* it requests the feed no more.
C18_RetrySchedule ==
    \A r \in Slots :
        /\ run[r].parseCalls <= 3
        /\ run[r].pc = "attempt"
              => /\ run[r].parseCalls = run[r].attempt - 1
                 /\ run[r].waits = RetryDelays(run[r].parseCalls)
        /\ run[r].pc \in {"items", "save"}
              => run[r].waits = RetryDelays(run[r].attempt - 1)
        /\ \A e \in Entries(r) :
              /\ e.parseCalls <= 3
              /\ e.gaveUp => (e.attempts = 3 /\ e.waits = <<2000, 4000>>)
              /\ ~e.gaveUp => (/\ e.parseCalls = e.attempts
                               /\ e.waits = RetryDelays(e.attempts - 1))

\* C18 witness: one call gave up after three failed attempts and two sleeps.
C18_Witness ==
    \E r \in Slots : \E e \in Entries(r) :
        /\ e.gaveUp
        /\ e.fetchFailures = 3
        /\ e.waits = <<2000, 4000>>

----------------------------------------------------------------------------
(* Claims about the items of a feed (Spec) *)

\* the items of the feed the run of slot r has been through in its current
\* attempt
ItemsSeen(r) ==
    IF run[r].pc = "items" THEN 1..(run[r].ii - 1)
    ELSE IF run[r].pc = "save" THEN 1..Len(Feed(Source(run[r])))
    ELSE {}

\* C19: every article fetchFromRSS collects has a title and a link; an item
\* without a title or without a link is skipped, and every valid item the
\* call has been through is collected unless its link is already stored.
C19_ValidItemsOnly ==
    /\ \A r \in Slots :
          /\ \A i \in 1..Len(run[r].batch) :
                /\ run[r].batch[i].titleEn # NoTitle
                /\ run[r].batch[i].originalUrl # NoLink
          /\ run[r].pc \in {"items", "save"}
                => \A j \in ItemsSeen(r) :
                      LET item == Feed(Source(run[r]))[j]
                      IN  (item.title # NoTitle /\ item.link # NoLink)
                            => \/ \E i \in 1..Len(run[r].batch) :
                                     /\ run[r].batch[i].originalUrl = item.link
                                     /\ run[r].batch[i].titleEn = item.title
                               \/ ExistingArticle(item.link)
    /\ \A a \in articles : a.titleEn # NoTitle /\ a.originalUrl # NoLink

\* C19 witness: the feed of s2 was read to its end; the item without a link
\* was skipped and the items before and after it were collected.
C19_Witness ==
    \E r \in Slots :
        /\ run[r].pc = "save"
        /\ Source(run[r]) = "s2"
        /\ Len(run[r].batch) = 2
        /\ run[r].batch[1].originalUrl = "l2"
        /\ run[r].batch[2].originalUrl = "l1"

----------------------------------------------------------------------------
(* More claims about the sanitizer (SpecSanitize) *)

\* C22 as stated: in the output of cleanHtmlContent every element is a div
\* or has an allowed tag of the content kind, and every element with an
\* allowed tag carries allowed attributes only, also inside a replaced
\* element.
C22_AsStated ==
    ret.op = "extractContent"
        => \A el \in Elements(ret.value) :
              \/ el.tag = "#text"
              \/ el.tag = "div"
              \/ /\ el.tag \in AllowedTags(ret.contentType)
                 /\ el.attrs \subseteq AllowedAttrs(ret.contentType)

----------------------------------------------------------------------------
(* SpecExtract: extractContent with the full-page fetch of fetchFullContent *)

\* contentSelectors, in the order they are tried
ContentSelectors ==
    << "article", ".post-content", ".entry-content", ".article-content",
       ".content", "main", ".main-content" >>

\* the length rawContent must stay under for the page to be fetched
ShortContent == 200

\* the length element.textContent must exceed
MinTextLength == 500

\* A fetched page says, per selector, what document.querySelector finds:
\* nothing, or an element and the length of its text. The element a selector
\* finds carries the selector as its class, so that its innerHTML tells which
\* one was taken.
TextLengths == {MinTextLength, MinTextLength + 1}

Found(length) == [found |-> TRUE, length |-> length]

NotFound == [found |-> FALSE, length |-> 0]

Pages ==
    {page \in [1..Len(ContentSelectors) -> {NotFound} \cup {Found(n) : n \in TextLengths}] :
        \A i \in {2, 3, 4} : page[i] = NotFound}

\* element.innerHTML of the element selector i finds
PageElement(i) == << El("p", {"style"}, {ContentSelectors[i]}, << Text >>) >>

\* the selectors that qualify: an element is found and its text is longer
\* than 500 characters
Qualifying(page) ==
    {i \in 1..Len(ContentSelectors) :
        page[i].found /\ page[i].length > MinTextLength}

\* fetchFullContent(url): the innerHTML of the first qualifying selector's
\* element; null (<<>>) when axios.get raises or no selector qualifies
FetchFullContent(get, page) ==
    IF get = "raise" \/ Qualifying(page) = {}
    THEN <<>>
    ELSE PageElement(CHOOSE i \in Qualifying(page) :
                        \A j \in Qualifying(page) : i <= j)

\* rawContent.length < 200 && url
TooShort(length, url) == length < ShortContent /\ url # NoLink

\* extractContent(rawContent, url, contentType) for a rawContent of the given
\* length; history: gets (calls of axios.get)
CallExtractContentUrl(rawContent, length, url, get, page, contentType) ==
    LET short       == TooShort(length, url)
        fullContent == IF short THEN FetchFullContent(get, page) ELSE <<>>
    IN  /\ ret' = [op |-> "extractContentUrl", html |-> rawContent,
                   length |-> length, url |-> url, get |-> get, page |-> page,
                   contentType |-> contentType,
                   gets |-> IF short THEN 1 ELSE 0,
                   cleaned |-> IF short /\ fullContent # <<>> THEN fullContent
                               ELSE rawContent,
                   value |-> ExtractContent(rawContent, short, fullContent,
                                            contentType)]
        /\ UNCHANGED <<edits>>
        /\ UNCHANGED tables /\ UNCHANGED pipelineVars /\ UNCHANGED retentionVars
        /\ UNCHANGED serviceVars

ExtractInputs ==
    { << Text >>, << El("a", {"href", "onclick"}, {}, << Text >>) >> }

InitExtract ==
    /\ InitTables
    /\ edits = 0
    /\ ret = NoCall
    /\ InitPipelineVars
    /\ InitServiceVars
    /\ startsLeft = [r \in Slots |-> 0]
    /\ faultsLeft = 0

NextExtract ==
    \E rawContent \in ExtractInputs, length \in {ShortContent - 1, ShortContent},
       url \in {NoLink, "l1"}, get \in {"ok", "raise"}, page \in Pages,
       contentType \in ContentTypes :
        CallExtractContentUrl(rawContent, length, url, get, page, contentType)

SpecExtract == InitExtract /\ [][NextExtract]_vars

----------------------------------------------------------------------------
(* Claims about extractContent (SpecExtract) *)

\* no element of the nodes has a tag or an attribute the content kind
\* does not allow
Sanitized(nodes, contentType) ==
    \A el \in Elements(nodes) :
        \/ el.tag \in {"#text", "div"}
        \/ /\ el.tag \in AllowedTags(contentType)
           /\ el.attrs \subseteq AllowedAttrs(contentType)

\* The page is fetched, once, iff the content is shorter than 200 characters
\* and a url is given; what is handed to cleanHtmlContent is the element of
\* the first selector whose text exceeds 500 characters when the page was
\* fetched and one qualifies, else the content as given.
ExtractContentChoosesItsInput ==
    ret.op = "extractContentUrl"
        => /\ ret.gets = (IF ret.length < ShortContent /\ ret.url # NoLink
                          THEN 1 ELSE 0)
           /\ LET first == {i \in Qualifying(ret.page) :
                               \A j \in Qualifying(ret.page) : i <= j}
              IN  IF ret.gets = 1 /\ ret.get = "ok" /\ first # {}
                  THEN \A i \in first : ret.cleaned = PageElement(i)
                  ELSE ret.cleaned = ret.html

\* C23 as stated: extractContent fetches the page, once, iff the snippet is
\* shorter than 200 characters and a url is present; the page content is
\* used only when a selector qualifies, the first in list order; and when
\* the fetch fails or no selector qualifies the snippet is sanitized and
\* returned.
C23_AsStated ==
    /\ ExtractContentChoosesItsInput
    /\ (/\ ret.op = "extractContentUrl"
        /\ (ret.gets = 0 \/ ret.get = "raise" \/ Qualifying(ret.page) = {}))
          => Sanitized(ret.value, ret.contentType)

----------------------------------------------------------------------------
(* Claims about the order of the steps of a run (SpecSerial) *)

\* C24: in a full sweep the sources are processed one at a time, in list
\* order: while the sweep works on source si, every source before it has
\* been logged as finished with each of its fetched items created, rejected
\* or failed, and no feed of a later source has been requested.
C24_OneSourceAtATime ==
    \A r \in Slots :
        LET rec == run[r]
        IN  (rec.kind = "sweep" /\ rec.pc \in {"attempt", "items", "save", "done"})
              => /\ Len(rec.log) = rec.si - 1
                 /\ \A k \in 1..Len(rec.log) :
                        /\ rec.log[k].source = rec.sources[k]
                        /\ rec.log[k].items = rec.log[k].created
                                + rec.log[k].rejected + rec.log[k].raised
                 /\ rec.fetched \subseteq
                        {rec.sources[k] : k \in 1..Min(rec.si, Len(rec.sources))}

\* C24 witness: a sweep is storing the items of its second source after its
\* first source was fetched and its items were stored.
C24_Witness ==
    \E r \in Slots :
        /\ run[r].kind = "sweep"
        /\ run[r].pc = "save"
        /\ run[r].si = 2
        /\ run[r].log[1].items > 0
        /\ run[r].log[1].created > 0

----------------------------------------------------------------------------
(* Claims about a failed title translation during ingestion (SpecSerial) *)

\* C25: when the translator raises for an item whose title is to be
\* translated, the item's article is in the list fetchFromRSS builds; once
\* saveArticles has passed it, an Article with its origin URL is stored
\* unless an insert of the batch raised; and the error counters count the
\* raised inserts only.
C25_TranslatorFailureKeepsItem ==
    \A r \in Slots :
        LET rec == run[r]
        IN  /\ \A f \in rec.enrichFailed :
                  f.how = "llmRaise"
                    => /\ f.index <= Len(rec.batch)
                       /\ rec.batch[f.index].titleEn = f.title
                       /\ (rec.pc = "save" /\ f.index < rec.bi)
                            => \/ rec.raised > 0
                               \/ \E a \in articles :
                                     a.originalUrl = rec.batch[f.index].originalUrl
            /\ rec.errors = rec.raised
            /\ \A k \in 1..Len(rec.log) : rec.log[k].errorsAdded = rec.log[k].raised

\* C25 witness: the translator raised for an item of the batch, the batch
\* was saved past it without an error, and its Article is stored.
C25_Witness ==
    \E r \in Slots :
        /\ run[r].pc = "save"
        /\ run[r].errors = 0
        /\ \E f \in run[r].enrichFailed :
              /\ f.how = "llmRaise"
              /\ f.index < run[r].bi
              /\ \E a \in articles :
                    /\ a.originalUrl = run[r].batch[f.index].originalUrl
                    /\ a.titleEn = f.title

\* C26 as stated: the article built for an item whose title translation
\* failed has a null titleCn.
C26_AsStated ==
    \A r \in Slots :
        run[r].pc \in {"items", "save"}
            => \A f \in run[r].enrichFailed :
                  run[r].batch[f.index].titleCn = Null

----------------------------------------------------------------------------
(* SpecDates: calls of parsePublishedDate *)

CallParsePublishedDate(item) ==
    /\ ret' = [op |-> "parsePublishedDate", item |-> item,
               value |-> ParsePublishedDate(item)]
    /\ UNCHANGED <<edits>>
    /\ UNCHANGED tables /\ UNCHANGED pipelineVars /\ UNCHANGED retentionVars
    /\ UNCHANGED serviceVars

InitDates ==
    /\ InitTables
    /\ edits = 0
    /\ ret = NoCall
    /\ InitPipelineVars
    /\ InitServiceVars
    /\ startsLeft = [r \in Slots |-> 0]
    /\ faultsLeft = 0

NextDates ==
    \E pubDate \in DateTexts, isoDate \in DateTexts, date \in DateTexts,
       dcDate \in DateTexts :
        CallParsePublishedDate([title |-> En("A"), link |-> "l1",
                                pubDate |-> pubDate, isoDate |-> isoDate,
                                date |-> date, dcDate |-> dcDate])

SpecDates == InitDates /\ [][NextDates]_vars

----------------------------------------------------------------------------
(* Claims about parsePublishedDate (SpecDates) *)

\* the text is a date
Parsable(text) == text \in {"day 90", "day 95"}

\* C27: parsePublishedDate returns the date of the first of pubDate,
\* isoDate, date and dc:date that parses, and the current time when none
\* does; it returns for every item.
C27_FirstParsableDate ==
    ret.op = "parsePublishedDate"
        => LET fields == << ret.item.pubDate, ret.item.isoDate, ret.item.date,
                            ret.item.dcDate >>
               days   == [text \in {"day 90", "day 95"} |->
                             IF text = "day 90" THEN 90 ELSE 95]
           IN  /\ \A i \in 1..4 :
                     (/\ Parsable(fields[i])
                      /\ \A j \in 1..(i - 1) : ~Parsable(fields[j]))
                        => ret.value = days[fields[i]]
               /\ (\A i \in 1..4 : ~Parsable(fields[i])) => ret.value = Now

\* C27 witness: the primary date does not parse, the ISO date is empty, the
\* generic date parses and is returned although the alternate one differs.
C27_Witness ==
    /\ ret.op = "parsePublishedDate"
    /\ ret.item.pubDate = "not a date"
    /\ ret.item.isoDate = ""
    /\ ret.item.date = "day 90"
    /\ ret.item.dcDate = "day 95"
    /\ ret.value = 90

----------------------------------------------------------------------------
(* Claims about a single-source run (SpecSerial) *)

\* C28: a single-source run for source S requests the feed of S only, and
\* every Article the table gained since the run started belongs to S; the
\* rows the table held when it started are all still there.
C28_SingleSourceTouchesOnlyItsSource ==
    \A r \in Slots :
        run[r].kind = "single"
            => /\ run[r].fetched \subseteq {run[r].target}
               /\ \A a \in articles \ run[r].before : a.sourceId = run[r].target
               /\ run[r].before \subseteq articles

\* C28 witness: a single-source run has returned after it created an Article
\* for its source, while the table held an Article of another source.
C28_Witness ==
    \E r \in Slots :
        /\ run[r].kind = "single"
        /\ run[r].pc = "done"
        /\ run[r].totalArticles > 0
        /\ run[r].fetched = {run[r].target}
        /\ \E a \in run[r].before : a.sourceId # run[r].target
        /\ \E a \in articles \ run[r].before : a.sourceId = run[r].target

----------------------------------------------------------------------------
(* Claims about what starts a new fetch attempt (SpecSerial) *)

\* C29 as stated: fetchFromRSS starts a new attempt only after the feed
\* fetch and parse itself failed: for the source being processed, the
\* attempts made beyond the first, and the feed requests beyond the first,
\* are no more than the failed feed requests.
C29_AsStated ==
    \A r \in Slots :
        run[r].pc \in {"attempt", "items", "save"}
            => /\ run[r].attempt - 1 <= run[r].fetchFailures
               /\ run[r].parseCalls - 1 <= run[r].fetchFailures

----------------------------------------------------------------------------
(* SpecCron: the scheduled tasks under startCronJobs, stopCronJobs, *)
(* stopCronJob and restartCronJob                                   *)

\* tasks cron.schedule may create in all
MaxCronTasks == 4

\* a key CRON_JOBS does not have
UnknownJob == "UNKNOWN"

\* cron.schedule(config.schedule, ...) raises for an expression that is not a
\* cron expression; only NEWS_FETCH takes its expression from the environment
ScheduleRaises(key) ==
    key = "NEWS_FETCH" /\ newsFetchInterval = "invalid"

\* the task cron.schedule returns, after task.start()
StartedTask(key) == [key |-> key, running |-> TRUE]

\* the body of the try in startCronJobs and restartCronJob: schedule the
\* task, put it under its key, start it; nothing when cron.schedule raises
ScheduleJob(tasks, active, key) ==
    IF ScheduleRaises(key)
    THEN <<tasks, active>>
    ELSE << Append(tasks, StartedTask(key)),
            [active EXCEPT ![key] = Len(tasks) + 1] >>

\* task.stop() for the tasks with the given indexes
StopTasks(tasks, indexes) ==
    [i \in 1..Len(tasks) |->
        IF i \in indexes THEN [key |-> tasks[i].key, running |-> FALSE]
        ELSE tasks[i]]

\* startCronJobs(): each job of CRON_JOBS in turn
StartCronJobs ==
    /\ Len(cronTasks) + Len(JobOrder) <= MaxCronTasks
    /\ LET first  == ScheduleJob(cronTasks, activeTasks, JobOrder[1])
           second == ScheduleJob(first[1], first[2], JobOrder[2])
       IN  /\ cronTasks' = second[1]
           /\ activeTasks' = second[2]
    /\ ret' = [op |-> "startCronJobs"]
    /\ UNCHANGED <<calls, newsFetchInterval, edits>>
    /\ UNCHANGED tables /\ UNCHANGED pipelineVars /\ UNCHANGED retentionVars

\* stopCronJobs(), also run on SIGTERM and SIGINT: stop every task of
\* activeTasks, then clear it
StopCronJobs ==
    /\ cronTasks' = StopTasks(cronTasks, {activeTasks[k] : k \in JobKeys})
    /\ activeTasks' = [k \in JobKeys |-> 0]
    /\ ret' = [op |-> "stopCronJobs"]
    /\ UNCHANGED <<calls, newsFetchInterval, edits>>
    /\ UNCHANGED tables /\ UNCHANGED pipelineVars /\ UNCHANGED retentionVars

\* what stopCronJob(jobKey) leaves and returns
StopJob(tasks, active, jobKey) ==
    IF jobKey \in JobKeys /\ active[jobKey] # 0
    THEN << StopTasks(tasks, {active[jobKey]}),
            [active EXCEPT ![jobKey] = 0], TRUE >>
    ELSE << tasks, active, FALSE >>

\* stopCronJob(jobKey)
StopCronJob(jobKey) ==
    /\ cronTasks' = StopJob(cronTasks, activeTasks, jobKey)[1]
    /\ activeTasks' = StopJob(cronTasks, activeTasks, jobKey)[2]
    /\ ret' = [op |-> "stopCronJob", value |-> StopJob(cronTasks, activeTasks, jobKey)[3]]
    /\ UNCHANGED <<calls, newsFetchInterval, edits>>
    /\ UNCHANGED tables /\ UNCHANGED pipelineVars /\ UNCHANGED retentionVars

\* restartCronJob(jobKey): false for an unknown key; else the task under the
\* key is stopped and a new one scheduled
RestartCronJob(jobKey) ==
    /\ Len(cronTasks) + 1 <= MaxCronTasks
    /\ IF jobKey \notin JobKeys
       THEN /\ ret' = [op |-> "restartCronJob", value |-> FALSE]
            /\ UNCHANGED <<cronTasks, activeTasks>>
       ELSE LET stopped == StopJob(cronTasks, activeTasks, jobKey)
                started == ScheduleJob(stopped[1], stopped[2], jobKey)
            IN  /\ cronTasks' = started[1]
                /\ activeTasks' = started[2]
                /\ ret' = [op |-> "restartCronJob",
                           value |-> ~ScheduleRaises(jobKey)]
    /\ UNCHANGED <<calls, newsFetchInterval, edits>>
    /\ UNCHANGED tables /\ UNCHANGED pipelineVars /\ UNCHANGED retentionVars

InitCron ==
    /\ InitTables
    /\ edits = 0
    /\ ret = NoCall
    /\ InitPipelineVars
    /\ calls = [c \in Callers |-> IdleCall]
    /\ cronTasks = <<>>
    /\ activeTasks = [k \in JobKeys |-> 0]
    /\ newsFetchInterval \in {"unset", "valid", "invalid"}
    /\ startsLeft = [r \in Slots |-> 0]
    /\ faultsLeft = 0

NextCron ==
    \/ StartCronJobs
    \/ StopCronJobs
    \/ \E jobKey \in JobKeys \cup {UnknownJob} : StopCronJob(jobKey)
    \/ \E jobKey \in JobKeys \cup {UnknownJob} : RestartCronJob(jobKey)

SpecCron == InitCron /\ [][NextCron]_vars

----------------------------------------------------------------------------
(* Claims about the scheduled tasks (SpecCron) *)

\* the started tasks of a job key that were not stopped
Running(key) ==
    {i \in 1..Len(cronTasks) : cronTasks[i].key = key /\ cronTasks[i].running}

\* C30 as stated: after any sequence of startCronJobs, stopCronJobs,
\* stopCronJob and restartCronJob calls each job key has at most one started
\* task that was not stopped, and it is the one activeTasks holds under the
\* key.
C30_AsStated ==
    \A key \in JobKeys :
        /\ Cardinality(Running(key)) <= 1
        /\ \A i \in Running(key) : activeTasks[key] = i

----------------------------------------------------------------------------
(* SpecCache: two translateTitle calls interleaved at their await points *)

\* failures the environment may inject into the calls
MaxCacheFaults == 2

CacheTitles == {En("A"), En("B")}

\* translateTitle(title) is called; a caller makes one call, and caller 2
\* calls after caller 1 has (the callers are interchangeable)
StartTranslateTitle(c, title) ==
    /\ calls[c].pc = "idle"
    /\ c = 2 => calls[1].pc # "idle"
    /\ calls' = [calls EXCEPT ![c] = [IdleCall EXCEPT !.pc = "findUnique",
                                                      !.title = title]]
    /\ UNCHANGED <<cronTasks, activeTasks, newsFetchInterval>>
    /\ UNCHANGED tables /\ UNCHANGED policyVars /\ UNCHANGED pipelineVars
    /\ UNCHANGED retentionVars

\* prisma.titleTranslation.findUnique({ where: { originalTitle: title } }):
\* a cached row is returned at once; a raise ends in the outer catch, which
\* logs and returns the title
FindUnique(c, db) ==
    /\ calls[c].pc = "findUnique"
    /\ db = "raise" => faultsLeft > 0
    /\ faultsLeft' = faultsLeft - (IF db = "raise" THEN 1 ELSE 0)
    /\ LET call == calls[c]
       IN  calls' = [calls EXCEPT ![c] =
              IF db = "raise"
              THEN [call EXCEPT !.pc = "done", !.value = call.title,
                                !.logged = @ + 1]
              ELSE IF Cached(call.title) # {}
              THEN [call EXCEPT !.pc = "done",
                        !.value = (CHOOSE row \in Cached(call.title) : TRUE).translatedTitle]
              ELSE [call EXCEPT !.pc = "translateText", !.missed = TRUE]]
    /\ UNCHANGED <<articles, nextId, titleTranslation, run, startsLeft, lastSweep>>
    /\ UNCHANGED <<cronTasks, activeTasks, newsFetchInterval>>
    /\ UNCHANGED tables /\ UNCHANGED policyVars /\ UNCHANGED retentionVars

\* llmService.translateText(title, 'zh-CN') answers or raises
TranslateText(c, answer) ==
    /\ calls[c].pc = "translateText"
    /\ answer = "raise" => faultsLeft > 0
    /\ faultsLeft' = faultsLeft - (IF answer = "raise" THEN 1 ELSE 0)
    /\ LET call == [calls[c] EXCEPT !.llmCalls = @ + 1]
       IN  calls' = [calls EXCEPT ![c] =
              IF answer = "raise"
              THEN [call EXCEPT !.pc = "done", !.value = call.title,
                                !.logged = @ + 1]
              ELSE [call EXCEPT !.pc = "upsert",
                                !.translation = Zh(call.title, answer)]]
    /\ UNCHANGED <<articles, nextId, titleTranslation, run, startsLeft, lastSweep>>
    /\ UNCHANGED <<cronTasks, activeTasks, newsFetchInterval>>
    /\ UNCHANGED tables /\ UNCHANGED policyVars /\ UNCHANGED retentionVars

\* prisma.titleTranslation.upsert(...).catch(log): the row is written; or the
\* write is rejected because a row with the key appeared since the lookup
\* (P2002), or raises for another reason, which is logged. Then the
\* translation is returned.
UpsertTranslation(c, db) ==
    /\ calls[c].pc = "upsert"
    /\ db = "P2002" => Cached(calls[c].title) # {}
    /\ db = "raise" => faultsLeft > 0
    /\ faultsLeft' = faultsLeft - (IF db = "raise" THEN 1 ELSE 0)
    /\ LET call == calls[c]
       IN  /\ titleTranslation' = IF db = "ok"
                                  THEN Upsert(call.title, call.translation)
                                  ELSE titleTranslation
           /\ calls' = [calls EXCEPT ![c] =
                 [call EXCEPT !.pc = "done", !.value = call.translation,
                              !.stored = (db = "ok"),
                              !.logged = @ + (IF db = "ok" THEN 0 ELSE 1)]]
    /\ UNCHANGED <<articles, nextId, run, startsLeft, lastSweep>>
    /\ UNCHANGED <<cronTasks, activeTasks, newsFetchInterval>>
    /\ UNCHANGED tables /\ UNCHANGED policyVars /\ UNCHANGED retentionVars

InitCache ==
    /\ InitTables
    /\ edits = 0
    /\ ret = NoCall
    /\ InitPipelineVars
    /\ InitServiceVars
    /\ startsLeft = [r \in Slots |-> 0]
    /\ faultsLeft = MaxCacheFaults

NextCache ==
    \/ \E c \in Callers, title \in CacheTitles : StartTranslateTitle(c, title)
    \/ \E c \in Callers, db \in {"ok", "raise"} : FindUnique(c, db)
    \/ \E c \in Callers, answer \in LlmAnswers \cup {"raise"} : TranslateText(c, answer)
    \/ \E c \in Callers, db \in {"ok", "P2002", "raise"} : UpsertTranslation(c, db)

SpecCache == InitCache /\ [][NextCache]_vars

----------------------------------------------------------------------------
(* Claims about the translation cache under concurrent calls (SpecCache) *)

\* both callers ran translateTitle for one title, both lookups missed, and
\* both calls have returned
BothMissed ==
    /\ \A c \in Callers : calls[c].pc = "done" /\ calls[c].missed
    /\ calls[1].title = calls[2].title

\* the translations written to the cache for a title by the calls so far
Written(title) ==
    {calls[c].translation : c \in {d \in Callers : calls[d].stored
                                                     /\ calls[d].title = title}}

\* C21 as stated: the translator is called only on a cache miss; after a
\* miss whose translation was obtained the cache holds a translation under
\* the title; and when two calls for one title both missed, neither raises
\* and the cache holds exactly one entry for the title.
C21_AsStated ==
    /\ \A c \in Callers : calls[c].llmCalls > 0 => calls[c].missed
    /\ \A c \in Callers : ~calls[c].raised
    /\ BothMissed => Cardinality(Cached(calls[1].title)) = 1

\* C21: the translator is called at most once per call and only after the
\* lookup of that exact title missed; no call raises; the cache never holds
\* two entries for one title; once a call's cache write went through, the
\* cache holds under that title a translation written by a call for it; and
\* when two calls for one title both missed and a cache write of either went
\* through, the cache holds exactly one entry for the title.
C21_CacheRaceHarmless ==
    /\ \A c \in Callers :
          /\ calls[c].llmCalls <= 1
          /\ calls[c].llmCalls > 0 => calls[c].missed
          /\ ~calls[c].raised
          /\ calls[c].stored
                => \E row \in Cached(calls[c].title) :
                       row.translatedTitle \in Written(calls[c].title)
    /\ \A title \in CacheTitles : Cardinality(Cached(title)) <= 1
    /\ (BothMissed /\ \E c \in Callers : calls[c].stored)
          => Cardinality(Cached(calls[1].title)) = 1

\* C21 witness: two calls for one title both missed, obtained different
\* translations and both wrote the cache, which holds one entry.
C21_Witness ==
    /\ BothMissed
    /\ \A c \in Callers : calls[c].stored
    /\ calls[1].translation # calls[2].translation
    /\ Cardinality(Cached(calls[1].title)) = 1

====
